---- MODULE Spec2Model ----
(***************************************************************************)
(* A model of ingit (mbdevpl/ingit): the interactive prompt, the remote    *)
(* reconciliation of Project._status_remotes, the repository snapshot of   *)
(* RepoData, the checkout selector, the log printing of the branch status  *)
(* and the per-project dispatch of Runtime.execute_git_command.            *)
(*                                                                         *)
(* Python values are modelled as follows.  An insertion-ordered dict is a  *)
(* sequence of <<key, value>> pairs without repeated keys.  None is the    *)
(* string "None".  A URL is a tuple of one-character strings, so that the  *)
(* backslash replacement of _status_remotes is computed and not assumed.   *)
(***************************************************************************)
EXTENDS Integers, Sequences, FiniteSets, TLC

VARIABLES
    project_remotes, \* Project.remotes: the configured name -> URL mapping
    git_remotes,     \* the remotes of the repository itself, name -> URL
    sr,              \* the locals and the position of a _status_remotes run
    events,          \* what the run reported, asked and ran, in order
    repo,            \* the git repository behind RepoData._repo
    rd,              \* the RepoData snapshot and how its last refresh() ended
    hist,            \* history: the previous refresh and the changes made since
    co,              \* the locals and the position of a Project.checkout run
    pl,              \* the arguments of a Project._print_log call and what it printed
    rt,              \* the Runtime: its mode, its projects and the run of a command
    pr,              \* a Project, its directory and the run of one of its methods
    rg,              \* the repositories configuration and the run of register_repository
    ak               \* the arguments of an ask call, the keystrokes and how it ended

None == "None"

(***************************************************************************)
(* Generic helpers for sequences used as ordered dicts.                    *)
(***************************************************************************)
Range(s) == {s[i] : i \in DOMAIN s}

Keys(d) == {d[i][1] : i \in DOMAIN d}

Values(d) == {d[i][2] : i \in DOMAIN d}

Get(d, k) == (CHOOSE i \in DOMAIN d : d[i][1] = k) \* d[k]; only used when k is a key

Lookup(d, k) == d[Get(d, k)][2]

\* mutant of Del: the entry stays
Del_nothing(d, k) == d

\* del d[k]
Del(d, k) == SelectSeq(d, LAMBDA p : p[1] # k)

\* every ordering of a finite set, as sequences: the iteration orders of a Python set
Orderings(S) ==
    {s \in [1..Cardinality(S) -> S] : \A i, j \in DOMAIN s : i # j => s[i] # s[j]}

(***************************************************************************)
(* The interactive prompt: runtime_interface.ask                           *)
(***************************************************************************)
ETX == "^C" \* chr(3)

_INTERRUPTS == {ETX}

_NEWLINES == {"\n", "\r"}

UpperChars ==
    <<"A", "B", "C", "D", "E", "F", "G", "H", "I", "J", "K", "L", "M",
      "N", "O", "P", "Q", "R", "S", "T", "U", "V", "W", "X", "Y", "Z">>

LowerChars ==
    <<"a", "b", "c", "d", "e", "f", "g", "h", "i", "j", "k", "l", "m",
      "n", "o", "p", "q", "r", "s", "t", "u", "v", "w", "x", "y", "z">>

\* str.lower() on a one-character string
lower(c) ==
    IF \E i \in DOMAIN UpperChars : UpperChars[i] = c
    THEN LowerChars[CHOOSE i \in DOMAIN UpperChars : UpperChars[i] = c]
    ELSE c

\* mutant of case_insensitive: the case is always ignored
case_insensitive_always(answers) == TRUE

\* len(case_insensitive_answers) == len(answers)
case_insensitive(answers) ==
    Cardinality({lower(answers[i]) : i \in DOMAIN answers}) = Len(answers)

\* the while loop of ask: keystrokes is what readchar.readchar() will deliver,
\* n the number of keystrokes read so far
RECURSIVE ask_loop(_, _, _, _, _, _)
ask_loop(answer, answers, default, ci, keystrokes, n) ==
    IF answer \in answers
    THEN [kind |-> "return", value |-> answer, nread |-> n]
    ELSE IF n = Len(keystrokes)
    THEN [kind |-> "blocked", value |-> None, nread |-> n]
    ELSE LET c == IF ci THEN lower(keystrokes[n + 1]) ELSE keystrokes[n + 1]
         IN  IF c \in _INTERRUPTS
             THEN [kind |-> "KeyboardInterrupt", value |-> None, nread |-> n + 1]
             ELSE ask_loop(IF c \in _NEWLINES THEN default ELSE c,
                           answers, default, ci, keystrokes, n + 1)

True == "True"

\* ask(question, answers, default, autoanswer): answers0 is the declared sequence
\* of answers, <<>> standing for answers=None (an empty list is rejected by the
\* assertion of line 54 and is never passed); default0 is None or an answer;
\* autoanswer0 is None, True or an answer
\* lines 52-76: what ask settles before it reads anything
ask_prepare(answers0, default0, autoanswer0) ==
    LET answers == IF answers0 = <<>> THEN <<"y", "n">> ELSE answers0
        default1 == IF default0 = None THEN answers[Len(answers)] ELSE default0
        auto1 == IF autoanswer0 = True THEN default1 ELSE autoanswer0
        ci == case_insensitive(answers)
    IN  [answers |-> IF ci THEN {lower(answers[i]) : i \in DOMAIN answers}
                     ELSE Range(answers),
         default |-> IF ci THEN lower(default1) ELSE default1,
         autoanswer |-> IF ci /\ auto1 # None THEN lower(auto1) ELSE auto1,
         ci |-> ci]

ask(answers0, default0, autoanswer0, keystrokes) ==
    LET p == ask_prepare(answers0, default0, autoanswer0)
    IN  ask_loop(p.autoanswer, p.answers, p.default, p.ci, keystrokes, 0)

\* what the user may type at a yes/no prompt
Keystrokes == {"y", "n", "Y", "q", "\r", ETX}

MaxKeystrokes == 2

\* the keystroke sequences over the keys K that the user may type at one prompt
KeystrokeSeqs(K) == UNION {[1..n -> K] : n \in 0..MaxKeystrokes}

\* ask consumed all of the keystrokes and returned or raised KeyboardInterrupt
Answered(r, keystrokes) == r.kind # "blocked" /\ r.nread = Len(keystrokes)

\* the ways one prompt can end, over all the keystroke sequences over K: the
\* value returned, or KeyboardInterrupt, with the number of keystrokes it read
prompt_outcomes(answers0, default0, autoanswer0, K) ==
    LET p == ask_prepare(answers0, default0, autoanswer0)
        all == {<<k, ask_loop(p.autoanswer, p.answers, p.default, p.ci, k, 0)>> :
                    k \in KeystrokeSeqs(K)}
    IN  {x[2] : x \in {y \in all : Answered(y[2], y[1])}}

\* ask(question) as Project calls it for its yes/no offers
ask_yes_no == prompt_outcomes(<<>>, None, None, Keystrokes)

(***************************************************************************)
(* Remote reconciliation: Project._status_remotes                          *)
(***************************************************************************)
RemoteNames == {"origin", "mirror", "backup"}

U1 == <<"u", "/", "1">>

U2 == <<"u", "/", "2">>

U1w == <<"u", "\\", "1">> \* U1 written with a backslash

Urls == {U1, U2, U1w}

MaxRemotes == 2

\* v.replace('\\', '/')
replace_backslash(url) == [i \in DOMAIN url |-> IF url[i] = "\\" THEN "/" ELSE url[i]]

\* the name -> URL mappings with at most MaxRemotes names, as sets of pairs
RemoteMaps ==
    UNION {[N -> Urls] : N \in {M \in SUBSET RemoteNames : Cardinality(M) <= MaxRemotes}}

Items(f) == {<<k, f[k]>> : k \in DOMAIN f}

\* {k: v.replace('\\', '/') for k, v in ...items()}
normalized(f) == [k \in DOMAIN f |-> replace_backslash(f[k])]

\* --- the git remote subcommands, on the repository's name -> URL mapping ---
git_remote_ok(remotes, cmd) ==
    CASE cmd[1] = "rename" -> cmd[2] \in DOMAIN remotes /\ cmd[3] \notin DOMAIN remotes
      [] cmd[1] = "set-url" -> cmd[2] \in DOMAIN remotes
      [] cmd[1] = "remove" -> cmd[2] \in DOMAIN remotes
      [] cmd[1] = "add" -> cmd[2] \notin DOMAIN remotes

git_remote(remotes, cmd) ==
    CASE cmd[1] = "rename" ->
            [k \in (DOMAIN remotes \ {cmd[2]}) \cup {cmd[3]} |->
                IF k = cmd[3] THEN remotes[cmd[2]] ELSE remotes[k]]
      [] cmd[1] = "set-url" -> [remotes EXCEPT ![cmd[2]] = cmd[4]]
      [] cmd[1] = "remove" -> [k \in DOMAIN remotes \ {cmd[2]} |-> remotes[k]]
      [] cmd[1] = "add" ->
            [k \in DOMAIN remotes \cup {cmd[2]} |->
                IF k = cmd[2] THEN cmd[4] ELSE remotes[k]]

\* events: <<"report", finding, name, "", <<>>>>, <<"ask", offer, name, other, url>>,
\* <<"answer", answer, name, other, url>>, <<"git", subcommand, name, other, url>>
Report(finding, name) == <<"report", finding, name, "", <<>> >>

Offer(cmd) == <<"ask", cmd[1], cmd[2], cmd[3], cmd[4]>>

Call(cmd) == <<"git", cmd[1], cmd[2], cmd[3], cmd[4]>>

\* what ask gave for the offer of cmd: the answer, or ETX for KeyboardInterrupt
Answer(cmd, r) ==
    <<"answer", IF r.kind = "return" THEN r.value ELSE ETX, cmd[2], cmd[3], cmd[4]>>

SrIdle ==
    [pc |-> "idle", remotes_in_config |-> <<>>, remotes |-> <<>>,
     extra_remote_names |-> {}, missing_remote_names |-> {},
     extra_remotes |-> <<>>, missing_remotes |-> <<>>, i |-> 0]

\* lines 487-500: the locals of the run; the two dicts are built from sets of
\* pairs, so their iteration order is any ordering of those sets
StatusRemotesBegin ==
    /\ sr.pc = "idle"
    /\ LET remotes_in_config == normalized(project_remotes)
           remotes == normalized(git_remotes)
           extra == Items(remotes) \ Items(remotes_in_config)
           missing == Items(remotes_in_config) \ Items(remotes)
       IN  \E eo \in Orderings(extra), mo \in Orderings(missing) :
              /\ sr' = [pc |-> IF extra = {} /\ missing = {} THEN "done" ELSE "extra",
                        remotes_in_config |-> remotes_in_config,
                        remotes |-> remotes,
                        extra_remote_names |-> DOMAIN git_remotes \ DOMAIN project_remotes,
                        missing_remote_names |-> DOMAIN project_remotes \ DOMAIN git_remotes,
                        extra_remotes |-> eo,
                        missing_remotes |-> mo,
                        i |-> 1]
              /\ events' = IF extra = {} /\ missing = {} THEN <<>>
                           ELSE <<Report("different remotes", "")>>
    /\ UNCHANGED <<project_remotes, git_remotes>>

\* mutant of OfferOutcome: the command runs whatever the answer is
OfferOutcome_any_answer(cmd, r) ==
    LET yes == r.kind = "return"
    IN  [interrupted |-> r.kind = "KeyboardInterrupt",
         yes |-> yes,
         failed |-> yes /\ ~git_remote_ok(git_remotes, cmd),
         events |-> <<Offer(cmd), Answer(cmd, r)>> \o (IF yes THEN <<Call(cmd)>> ELSE <<>>),
         git_remotes |-> IF yes /\ git_remote_ok(git_remotes, cmd)
                         THEN git_remote(git_remotes, cmd) ELSE git_remotes]

\* the outcome of one offer: the events it appends, the repository afterwards,
\* whether the user accepted and how control leaves the offer
OfferOutcome(cmd, r) ==
    LET yes == r.kind = "return" /\ r.value = "y"
    IN  [interrupted |-> r.kind = "KeyboardInterrupt",
         yes |-> yes,
         failed |-> yes /\ ~git_remote_ok(git_remotes, cmd),
         events |-> <<Offer(cmd), Answer(cmd, r)>> \o (IF yes THEN <<Call(cmd)>> ELSE <<>>),
         git_remotes |-> IF yes /\ git_remote_ok(git_remotes, cmd)
                         THEN git_remote(git_remotes, cmd) ELSE git_remotes]

ExitPc(o, next) ==
    IF o.interrupted THEN "KeyboardInterrupt"
    ELSE IF o.failed THEN "GitCommandError" ELSE next

\* mutant of classify: the name is looked at before the URL
classify_name_first(name, url, missing_remotes, extra_remote_names) ==
    IF name \in Keys(missing_remotes) THEN "url changed"
    ELSE IF url \in Values(missing_remotes) THEN "renamed remote"
    ELSE IF name \notin extra_remote_names THEN "misconfigured remote"
    ELSE "extra remote"

\* lines 503, 510, 517-519: the branch taken for one (name, url) of extra_remotes
classify(name, url, missing_remotes, extra_remote_names) ==
    IF url \in Values(missing_remotes) THEN "renamed remote"
    ELSE IF name \in Keys(missing_remotes) THEN "url changed"
    ELSE IF name \notin extra_remote_names THEN "misconfigured remote"
    ELSE "extra remote"

\* line 505: [k for k, v in missing_remotes.items() if url == v][0]
new_name_for(url, missing_remotes) ==
    SelectSeq(missing_remotes, LAMBDA p : p[2] = url)[1][1]

\* mutant of rename_command: the rename goes from the configured to the actual name
rename_command_reversed(name, new_name) == <<"rename", new_name, name, <<>> >>

\* lines 506-508: the rename that is offered and, on 'y', run
rename_command(name, new_name) == <<"rename", name, new_name, <<>> >>

\* lines 512-515
set_url_command(name, remotes_in_config) == <<"set-url", name, "", remotes_in_config[name]>>

\* lines 522-524
remove_command(name, remotes) == <<"remove", name, "", remotes[name]>>

\* lines 531-533: the URL added is the configured one as written, not normalized
add_command(name, self_remotes) == <<"add", name, "", self_remotes[name]>>

\* lines 502-524: one iteration of the loop over extra_remotes
StatusRemotesExtra ==
    /\ sr.pc = "extra"
    /\ sr.i <= Len(sr.extra_remotes)
    /\ LET name == sr.extra_remotes[sr.i][1]
           url == sr.extra_remotes[sr.i][2]
           next == [sr EXCEPT !.i = sr.i + 1]
           class == classify(name, url, sr.missing_remotes, sr.extra_remote_names)
       IN  CASE class = "renamed remote" ->
                LET new_name == new_name_for(url, sr.missing_remotes)
                    cmd == rename_command(name, new_name)
                IN  \E r \in ask_yes_no :
                       LET o == OfferOutcome(cmd, r)
                       IN  /\ events' = events \o <<Report("renamed remote", name)>> \o o.events
                           /\ git_remotes' = o.git_remotes
                           /\ sr' = [next EXCEPT
                                       !.pc = ExitPc(o, "extra"),
                                       !.missing_remotes =
                                           IF o.yes /\ ~o.failed
                                           THEN Del(sr.missing_remotes, new_name)
                                           ELSE sr.missing_remotes]
             [] class = "url changed" ->
                LET cmd == set_url_command(name, sr.remotes_in_config)
                IN  \E r \in ask_yes_no :
                       LET o == OfferOutcome(cmd, r)
                       IN  /\ events' = events \o <<Report("url changed", name)>> \o o.events
                           /\ git_remotes' = o.git_remotes
                           /\ sr' = [next EXCEPT
                                       !.pc = ExitPc(o, "extra"),
                                       !.missing_remotes =
                                           IF o.yes /\ ~o.failed
                                           THEN Del(sr.missing_remotes, name)
                                           ELSE sr.missing_remotes]
             [] class = "misconfigured remote" ->
                \* extra by its URL only: reported, nothing offered
                /\ events' = events \o <<Report("extra remote", name),
                                         Report("misconfigured remote", name)>>
                /\ sr' = next
                /\ UNCHANGED git_remotes
             [] class = "extra remote" ->
                LET cmd == remove_command(name, sr.remotes)
                IN  \E r \in ask_yes_no :
                       LET o == OfferOutcome(cmd, r)
                       IN  /\ events' = events \o <<Report("extra remote", name)>> \o o.events
                           /\ git_remotes' = o.git_remotes
                           /\ sr' = [next EXCEPT !.pc = ExitPc(o, "extra")]
    /\ UNCHANGED project_remotes

\* line 526: the first loop is exhausted, the second starts
StatusRemotesExtraEnd ==
    /\ sr.pc = "extra"
    /\ sr.i > Len(sr.extra_remotes)
    /\ sr' = [sr EXCEPT !.pc = "missing", !.i = 1]
    /\ UNCHANGED <<project_remotes, git_remotes, events>>

\* lines 526-533: one iteration of the loop over missing_remotes
StatusRemotesMissing ==
    /\ sr.pc = "missing"
    /\ sr.i <= Len(sr.missing_remotes)
    /\ LET name == sr.missing_remotes[sr.i][1]
           next == [sr EXCEPT !.i = sr.i + 1]
       IN  IF name \notin sr.missing_remote_names
           THEN /\ events' = events \o <<Report("missing remote", name),
                                         Report("misconfigured remote", name)>>
                /\ sr' = next
                /\ UNCHANGED git_remotes
           ELSE LET cmd == <<"add", name, "", project_remotes[name]>>
                IN  \E r \in ask_yes_no :
                       LET o == OfferOutcome(cmd, r)
                       IN  /\ events' = events \o <<Report("missing remote", name)>> \o o.events
                           /\ git_remotes' = o.git_remotes
                           /\ sr' = [next EXCEPT !.pc = ExitPc(o, "missing")]
    /\ UNCHANGED project_remotes

\* the second loop is exhausted: _status_remotes returns
StatusRemotesEnd ==
    /\ sr.pc = "missing"
    /\ sr.i > Len(sr.missing_remotes)
    /\ sr' = [sr EXCEPT !.pc = "done"]
    /\ UNCHANGED <<project_remotes, git_remotes, events>>

\* status is run once more on the project, after a run that returned or that
\* ended with the GitCommandError of a rejected command
StatusAgain ==
    /\ sr.pc \in {"done", "GitCommandError"}
    /\ sr' = SrIdle
    /\ events' = <<>>
    /\ UNCHANGED <<project_remotes, git_remotes>>

(***************************************************************************)
(* Strings that the code takes apart are tuples of characters.             *)
(***************************************************************************)
\* str.partition('/'): what precedes the first '/', and what follows it
partition(s) ==
    IF \E i \in DOMAIN s : s[i] = "/"
    THEN LET i == CHOOSE j \in DOMAIN s : s[j] = "/" /\ \A k \in 1..(j - 1) : s[k] # "/"
         IN  <<SubSeq(s, 1, i - 1), SubSeq(s, i + 1, Len(s))>>
    ELSE <<s, <<>> >>

\* str.replace(old, ''): every non-overlapping occurrence of old, left to right
RECURSIVE str_remove(_, _)
str_remove(s, old) ==
    IF Len(s) < Len(old) \/ old = <<>> THEN s
    ELSE IF SubSeq(s, 1, Len(old)) = old
    THEN str_remove(SubSeq(s, Len(old) + 1, Len(s)), old)
    ELSE <<s[1]>> \o str_remove(Tail(s), old)

\* f'{remote}/{branch}', the name of a remote reference
ref_name(remote, branch) == remote \o <<"/">> \o branch

\* mutant of update_keys: every key is appended, present or not
update_keys_appending(keys, more) == keys \o more

\* OrderedDict.update with keys only: present keys keep their place, new ones
\* are appended in the order given
RECURSIVE update_keys(_, _)
update_keys(keys, more) ==
    IF more = <<>> THEN keys
    ELSE update_keys(IF more[1] \in Range(keys) THEN keys ELSE Append(keys, more[1]),
                     Tail(more))

\* a dict built from a sequence of (key, value) items: a repeated key keeps its
\* first position and takes the last value
RECURSIVE dict_of(_)
dict_of(items) ==
    IF items = <<>> THEN <<>>
    ELSE LET n == Len(items)
             init == dict_of(SubSeq(items, 1, n - 1))
             last == items[n]
         IN  IF last[1] \in Keys(init)
             THEN [i \in DOMAIN init |-> IF init[i][1] = last[1] THEN last ELSE init[i]]
             ELSE Append(init, last)

RECURSIVE concat(_)
concat(seqs) == IF seqs = <<>> THEN <<>> ELSE seqs[1] \o concat(Tail(seqs))

(***************************************************************************)
(* The git repository behind a RepoData                                    *)
(***************************************************************************)
\* the local branch names, in the order git lists them
LocalNames == << <<"d">>, <<"m">> >>

GitRemoteNames == {<<"o">>, <<"u">>}

HEAD == <<"H", "E", "A", "D">>

FETCH_HEAD == <<"F", "E", "T", "C", "H", "_", "H", "E", "A", "D">>

\* the names a remote's references may have, in the order git lists them; the
\* last one is a branch of the remote that is itself called o/m
RemoteRefNames(remote) ==
    IF remote = <<"o">> THEN <<HEAD, <<"m">>, <<"o", "/", "m">> >> ELSE << <<"m">> >>

\* what branch.<name>.remote and branch.<name>.merge may hold: nothing, or o and m
Upstreams == {<<>>, << <<"o">>, <<"m">> >>}

Detached == <<>>

Subseqs(s) == {SelectSeq(s, LAMBDA x : x \in S) : S \in SUBSET Range(s)}

\* a repository: branches is repo.branches, head the branch HEAD points to (it
\* need not exist yet) or Detached, upstream the branch configuration, remotes
\* the sequence repo.remotes with the references of each, tags the names of
\* repo.tags
RepoRemotes ==
    UNION {{r \in [1..Len(names) -> [name : GitRemoteNames, refs : UNION {Subseqs(RemoteRefNames(n)) : n \in GitRemoteNames}]] :
                \A i \in DOMAIN r : r[i].name = names[i] /\ r[i].refs \in Subseqs(RemoteRefNames(names[i]))}
           : names \in UNION {Orderings(N) : N \in SUBSET GitRemoteNames}}

RepoStates ==
    {r \in [branches : Subseqs(LocalNames),
            head : Range(LocalNames) \cup {Detached},
            upstream : [Range(LocalNames) -> Upstreams],
            remotes : RepoRemotes,
            tags : {<<>>}] :
        \A b \in Range(LocalNames) :
            (b \notin Range(r.branches) /\ b # r.head) => r.upstream[b] = <<>>}

\* repo.active_branch: raises TypeError when HEAD is detached
repo_active_branch(r) == IF r.head = Detached THEN "TypeError" ELSE r.head

\* ref.tracking_branch() and str() of it: None, or '<remote>/<merge branch>'
tracking_branch(r, name) ==
    IF r.upstream[name] = <<>> THEN <<>>
    ELSE ref_name(r.upstream[name][1], r.upstream[name][2])

(***************************************************************************)
(* RepoData: the snapshot and refresh()                                    *)
(***************************************************************************)
NoBranch == <<>> \* _active_branch is None

\* RepoData.__init__
EmptyRepoData ==
    [_active_branch |-> NoBranch, branches |-> <<>>, tracking_branches |-> <<>>,
     remotes |-> <<>>, remote_branches |-> <<>>, raised |-> "not called"]

\* lines 106-111
refresh_active_branch(r) ==
    IF r.branches # <<>> /\ repo_active_branch(r) # "TypeError"
    THEN repo_active_branch(r) ELSE NoBranch

\* lines 113-116: the branch names, the active one first
refresh_branches(active, r) ==
    update_keys(IF active = NoBranch THEN <<>> ELSE <<active>>, r.branches)

\* mutant of _refresh_tracking_branches: a branch without upstream gets no entry
_refresh_tracking_branches_skip(branches, r) ==
    LET tracked == SelectSeq(branches, LAMBDA b : tracking_branch(r, b) # <<>>)
    IN  [i \in DOMAIN tracked |->
            LET tb == tracking_branch(r, tracked[i])
            IN  <<tracked[i], <<partition(tb)[1], partition(tb)[2], tb>> >>]

\* lines 57-68: one entry per name of branches; None is <<>>, a
\* TrackingBranchTuple is <<remote_name, tracking_branch_name, reference>>
_refresh_tracking_branches(branches, r) ==
    [i \in DOMAIN branches |->
        LET tb == tracking_branch(r, branches[i])
        IN  <<branches[i],
              IF tb = <<>> THEN <<>>
              ELSE <<partition(tb)[1], partition(tb)[2], tb>> >>]

\* lines 47-55 and 70-82: None is <<>>
default_remote(active, tracking_branches) ==
    IF active = NoBranch THEN <<>>
    ELSE IF Lookup(tracking_branches, active) = <<>> THEN <<>>
    ELSE <<Lookup(tracking_branches, active)[1]>>

\* lines 84-92
_find_default_remote_ref(default, r) ==
    IF default = <<>> THEN <<>>
    ELSE SelectSeq([i \in DOMAIN r.remotes |-> r.remotes[i].name],
                   LAMBDA n : n = default[1])

repo_remote_names(r) == [i \in DOMAIN r.remotes |-> r.remotes[i].name]

\* lines 94-102: the remote names, the default one first; the assertions fail
\* when the default remote is not exactly one remote of the repository
_refresh_remotes(active, tracking_branches, r) ==
    IF active # NoBranch /\ active \notin Keys(tracking_branches)
    THEN \* line 52: self.tracking_branches[self._active_branch]
         [raised |-> "KeyError", remotes |-> <<>>]
    ELSE LET default == default_remote(active, tracking_branches)
             matching == _find_default_remote_ref(default, r)
         IN  IF Len(matching) > 1 \/ (default # <<>> /\ matching = <<>>)
             THEN [raised |-> "AssertionError", remotes |-> <<>>]
             ELSE [raised |-> "no",
                   remotes |-> update_keys(default, repo_remote_names(r))]

remote_refs(r, name) ==
    r.remotes[CHOOSE i \in DOMAIN r.remotes : r.remotes[i].name = name].refs

\* lines 121-123: keyed by (remote_name, str(ref).replace(f'{remote_name}/', ''));
\* the value is the reference, named by its full name
refresh_remote_branches(remotes, r) ==
    dict_of(concat([i \in DOMAIN remotes |->
        LET refs == remote_refs(r, remotes[i])
        IN  [j \in DOMAIN refs |->
                << <<remotes[i],
                     str_remove(ref_name(remotes[i], refs[j]), remotes[i] \o <<"/">>)>>,
                   ref_name(remotes[i], refs[j]) >>]]))

\* mutant of refresh: remotes is updated in place instead of being rebuilt
refresh_updates_remotes(old, r) ==
    LET active == refresh_active_branch(r)
        branches == refresh_branches(active, r)
        tracking == _refresh_tracking_branches(branches, r)
        rr == _refresh_remotes(active, tracking, r)
        remotes == update_keys(old.remotes, rr.remotes)
    IN  IF rr.raised # "no"
        THEN [old EXCEPT !._active_branch = active, !.branches = branches,
                         !.tracking_branches = tracking, !.raised = rr.raised]
        ELSE [_active_branch |-> active, branches |-> branches,
              tracking_branches |-> tracking, remotes |-> remotes,
              remote_branches |->
                  refresh_remote_branches(
                      SelectSeq(remotes, LAMBDA n : n \in Range(repo_remote_names(r))), r),
              raised |-> "no"]

\* lines 104-123: refresh() on the snapshot old over the repository r; the
\* fields are assigned in the order of the code, so that a failing assertion
\* leaves the later ones as they were
refresh(old, r) ==
    LET active == refresh_active_branch(r)
        branches == refresh_branches(active, r)
        tracking == _refresh_tracking_branches(branches, r)
        rr == _refresh_remotes(active, tracking, r)
    IN  IF rr.raised # "no"
        THEN [old EXCEPT !._active_branch = active, !.branches = branches,
                         !.tracking_branches = tracking, !.raised = rr.raised]
        ELSE [_active_branch |-> active, branches |-> branches,
              tracking_branches |-> tracking, remotes |-> rr.remotes,
              remote_branches |-> refresh_remote_branches(rr.remotes, r),
              raised |-> "no"]

(***************************************************************************)
(* A RepoData over a repository that git commands change between refreshes *)
(***************************************************************************)
MaxChanges == 1

HistInit == [calls |-> 0, prev |-> EmptyRepoData, changes |-> 0]

\* RepoData.refresh(); hist keeps the snapshot as it was before the call and
\* the number of calls made since the repository last changed
Refresh ==
    /\ rd' = refresh(rd, repo)
    /\ hist' = [hist EXCEPT !.calls = IF hist.calls < 2 THEN hist.calls + 1 ELSE 2,
                            !.prev = rd]
    /\ UNCHANGED repo

Changed == [hist EXCEPT !.calls = 0, !.changes = hist.changes + 1]

\* git checkout <branch>, git checkout --detach, git checkout --orphan <name>
GitCheckout ==
    /\ hist.changes < MaxChanges
    /\ \E h \in (Range(LocalNames) \cup {Detached}) \ {repo.head} :
          repo' = [repo EXCEPT !.head = h]
    /\ hist' = Changed
    /\ UNCHANGED rd

\* git branch <name>
GitBranch ==
    /\ hist.changes < MaxChanges
    /\ \E b \in Range(LocalNames) \ Range(repo.branches) :
          repo' = [repo EXCEPT
                     !.branches = SelectSeq(LocalNames, LAMBDA x : x = b \/ x \in Range(repo.branches))]
    /\ hist' = Changed
    /\ UNCHANGED rd

\* git branch -D <name>, for a branch that is not checked out
GitBranchDelete ==
    /\ hist.changes < MaxChanges
    /\ \E b \in Range(repo.branches) \ {repo.head} :
          repo' = [repo EXCEPT !.branches = SelectSeq(repo.branches, LAMBDA x : x # b),
                               !.upstream[b] = <<>>]
    /\ hist' = Changed
    /\ UNCHANGED rd

\* git branch --set-upstream-to / --unset-upstream, or an edit of the configuration
GitSetUpstream ==
    /\ hist.changes < MaxChanges
    /\ \E b \in Range(repo.branches) \cup ({repo.head} \ {Detached}), up \in Upstreams :
          /\ up # repo.upstream[b]
          /\ repo' = [repo EXCEPT !.upstream[b] = up]
    /\ hist' = Changed
    /\ UNCHANGED rd

\* git remote add <name> <url>
GitRemoteAdd ==
    /\ hist.changes < MaxChanges
    /\ \E n \in GitRemoteNames \ Range(repo_remote_names(repo)) :
          repo' = [repo EXCEPT !.remotes = Append(repo.remotes, [name |-> n, refs |-> <<>>])]
    /\ hist' = Changed
    /\ UNCHANGED rd

\* git remote remove <name>: the branches that tracked it lose their upstream
GitRemoteRemove ==
    /\ hist.changes < MaxChanges
    /\ \E n \in Range(repo_remote_names(repo)) :
          repo' = [repo EXCEPT
                     !.remotes = SelectSeq(repo.remotes, LAMBDA x : x.name # n),
                     !.upstream = [b \in DOMAIN repo.upstream |->
                                      IF repo.upstream[b] # <<>> /\ repo.upstream[b][1] = n
                                      THEN <<>> ELSE repo.upstream[b]]]
    /\ hist' = Changed
    /\ UNCHANGED rd

\* git fetch --prune <name>: the references of the remote become another set
GitFetch ==
    /\ hist.changes < MaxChanges
    /\ \E i \in DOMAIN repo.remotes :
          \E refs \in Subseqs(RemoteRefNames(repo.remotes[i].name)) \ {repo.remotes[i].refs} :
              repo' = [repo EXCEPT !.remotes[i].refs = refs]
    /\ hist' = Changed
    /\ UNCHANGED rd

(***************************************************************************)
(* The checkout selector: Project.checkout and _prepare_checkout_list      *)
(***************************************************************************)
GRAVE == "grave" \* chr(96), the backquote, which a string here cannot hold

\* lines 224-226: the selector keys
keys ==
    <<
      "1", "2", "3", "4", "5", "6", "7", "8", "9", "0", "a", "b",
      "c", "d", "e", "f", "g", "h", "i", "j", "k", "l", "m", "o",
      "p", "q", "r", "s", "t", "u", "v", "w", "x", "z",
      "A", "B", "C", "D", "E", "F", "G", "H", "I", "J", "K", "L",
      "M", "O", "P", "R", "S", "T", "U", "V", "W", "X", "Z",
      ",", ".", "!", "?", "*", "&", "^", "%", "$", "#", "@", ";",
      ":", "'", "\"", "/", "|", "\\", "(", ")", "[", "]", "<", ">",
      "{", "}", "-", "_", "+", "=", "~", GRAVE
    >>

\* the values a menu target can be: a str, or a reference object of GitPython,
\* which equals only a reference of the same path and never a str
Str(name) == <<"str", name>>

TagReference(name) == <<"TagReference", name>>

RemoteReference(name) == <<"RemoteReference", name>>

\* str(x)
str(x) == x[2]

\* line 22
_SPECIAL_REFS == {Str(HEAD), Str(FETCH_HEAD)}

\* repr() of a (remote_name, name) key, as f'{remote}' formats it
py_repr(key) ==
    <<"(", "'">> \o key[1] \o <<"'", ",", " ", "'">> \o key[2] \o <<"'", ")">>

\* a == b for two Python tuples: the same length and equal items
py_tuple_eq(a, b) == Len(a) = Len(b) /\ \A i \in DOMAIN a : a[i] = b[i]

\* line 250: set(self.repo.tracking_branches.values()); None is <<>>, a
\* TrackingBranchTuple is (remote_name, tracking_branch_name, reference)
remote_tracking_branches(snap) ==
    {IF tb = <<>> THEN tb ELSE <<tb[1], tb[2], RemoteReference(tb[3])>> :
        tb \in Values(snap.tracking_branches)}

\* lines 253 and 275-276 on one item of remote_branches.items(): remote is
\* bound to the key of the item and branch to its value, the reference
is_skipped(item, snap) ==
    LET remote == item[1]
        branch == RemoteReference(item[2])
    IN  \/ \E tb \in remote_tracking_branches(snap) : py_tuple_eq(<<remote, branch>>, tb)
        \/ branch \in _SPECIAL_REFS

\* lines 278-282: the menu entry of one item of remote_branches.items()
remote_entry(item, snap) ==
    LET remote == item[1]
        branch == RemoteReference(item[2])
        to_checkout == IF branch \in {Str(b) : b \in Range(snap.branches)}
                       THEN Str(py_repr(remote) \o <<"/">> \o str(branch))
                       ELSE branch
    IN  [target |-> to_checkout, comment |-> <<"based on">>, based |-> remote]

\* lines 285-294: the entry that stands for no change
RECURSIVE first_index(_, _, _)
first_index(revisions, active, i) ==
    IF i > Len(revisions) THEN 0
    ELSE IF revisions[i][2].target = Str(active) THEN i
    ELSE first_index(revisions, active, i + 1)

annotate(revisions, active) ==
    IF active = <<>>
    THEN Append(revisions,
                <<"n", [target |-> Str(<<"-", "-", "-">>),
                        comment |-> <<"keep no branch/tag">>, based |-> <<>>]>>)
    ELSE LET i == first_index(revisions, active, 1)
         IN  IF i = 0 THEN revisions
             ELSE [revisions EXCEPT ![i][2].comment = Append(@, "no change")]

\* lines 245-296: the menu, key -> (target, comment), or RuntimeError; the
\* comment is the sequence of its comma-separated parts, based the key that
\* 'based on' names
_prepare_checkout_list(keys0, snap, r) ==
    LET local_branches == snap.branches
        remote_nontracking_branches ==
            SelectSeq(snap.remote_branches, LAMBDA item : ~is_skipped(item, snap))
        local_tags == r.tags
        all_candidates_count ==
            Len(local_branches) + Len(remote_nontracking_branches) + Len(local_tags)
        entries ==
            [i \in DOMAIN local_branches |->
                [target |-> Str(local_branches[i]), comment |-> <<>>, based |-> <<>>]]
            \o [i \in DOMAIN local_tags |->
                [target |-> TagReference(local_tags[i]), comment |-> <<"tag">>,
                 based |-> <<>>]]
            \o [i \in DOMAIN remote_nontracking_branches |->
                remote_entry(remote_nontracking_branches[i], snap)]
    IN  IF all_candidates_count > Len(keys0)
        THEN [raised |-> "RuntimeError", revisions |-> <<>>]
        ELSE [raised |-> "no",
              revisions |-> annotate([i \in DOMAIN entries |-> <<keys0[i], entries[i]>>],
                                     snap._active_branch)]

\* s[:n]
slice_to(s, n) == SubSeq(s, 1, IF n < Len(s) THEN n ELSE Len(s))

\* git checkout <name>: onto the branch of that name, or detached at the tag
\* or remote reference
git_checkout(r, name) ==
    [r EXCEPT !.head = IF name \in Range(r.branches) THEN name ELSE Detached]

\* mutant of is_active_branch: the names are compared
is_active_branch_by_name(target, snap) == str(target) = snap._active_branch

\* line 240: target == self.repo.active_branch
is_active_branch(target, snap) ==
    snap._active_branch # NoBranch /\ target = Str(snap._active_branch)

CoIdle ==
    [pc |-> "idle", existing |-> TRUE, revisions |-> <<>>, answer |-> None,
     invoked |-> FALSE, raised |-> "no"]

\* what the user may type at the checkout prompt
CheckoutKeystrokes == {"1", "2", GRAVE, "n", "N", "\r", ETX}

\* lines 213-234: up to the printed menu
CheckoutList ==
    /\ co.pc = "idle"
    /\ IF ~co.existing
       THEN co' = [co EXCEPT !.pc = "done"] /\ UNCHANGED rd
       ELSE LET snap == refresh(rd, repo)
                list == _prepare_checkout_list(keys, snap, repo)
            IN  /\ rd' = snap
                /\ co' = IF snap.raised # "no"
                         THEN [co EXCEPT !.pc = "done", !.raised = snap.raised]
                         ELSE IF list.raised # "no"
                         THEN [co EXCEPT !.pc = "done", !.raised = list.raised]
                         ELSE [co EXCEPT !.pc = "ask", !.revisions = list.revisions]
    /\ UNCHANGED repo

\* lines 236-243: the prompt and what follows the answer
CheckoutAnswer ==
    /\ co.pc = "ask"
    /\ \E o \in prompt_outcomes(Append(slice_to(keys, Len(co.revisions)), "n"),
                                None, None, CheckoutKeystrokes) :
          IF o.kind = "KeyboardInterrupt"
          THEN /\ co' = [co EXCEPT !.pc = "done", !.raised = "KeyboardInterrupt"]
               /\ UNCHANGED repo
          ELSE IF o.value = "n"
          THEN /\ co' = [co EXCEPT !.pc = "done", !.answer = o.value]
               /\ UNCHANGED repo
          ELSE IF o.value \notin Keys(co.revisions)
          THEN /\ co' = [co EXCEPT !.pc = "done", !.answer = o.value, !.raised = "KeyError"]
               /\ UNCHANGED repo
          ELSE LET target == Lookup(co.revisions, o.value).target
               IN  IF is_active_branch(target, rd)
                   THEN /\ co' = [co EXCEPT !.pc = "done", !.answer = o.value]
                        /\ UNCHANGED repo
                   ELSE /\ co' = [co EXCEPT !.pc = "done", !.answer = o.value,
                                            !.invoked = TRUE]
                        /\ repo' = git_checkout(repo, str(target))
    /\ UNCHANGED rd

MaxTags == 90

DigitChars == <<"0", "1", "2", "3", "4", "5", "6", "7", "8", "9">>

\* the names of the tags, in the order git lists them: m, then t02, t03, ...
TagName(i) ==
    IF i = 1 THEN <<"m">>
    ELSE <<"t", DigitChars[((i \div 10) % 10) + 1], DigitChars[(i % 10) + 1]>>

\* the repositories a checkout starts from: each remote was fetched, and there
\* are up to MaxTags tags
CheckoutRepos ==
    {[r EXCEPT !.tags = [i \in 1..t |-> TagName(i)]] :
        r \in {x \in RepoStates :
                 \A i \in DOMAIN x.remotes :
                     x.remotes[i].refs = RemoteRefNames(x.remotes[i].name)},
        t \in 0..MaxTags}

(***************************************************************************)
(* The log printing of the branch status: Project._print_log               *)
(***************************************************************************)
head_count == 10 \* the default of the parameter head_count

tail_count == 10 \* the default of the parameter tail_count

\* s[:n] and s[-n:] for n >= 0; s[-0:] is s[0:], the whole of s
slice_from_end(s, n) ==
    IF n = 0 \/ n >= Len(s) THEN s ELSE SubSeq(s, Len(s) - n + 1, Len(s))

\* the records that OUT.critical receives
Header(text) == [kind |-> "header", text |-> text, n |-> 0]

Line(commit) == [kind |-> "line", text |-> "", n |-> commit]

Skipped(count) == [kind |-> "skipped", text |-> "... skipped %i commits", n |-> count]

\* mutant of _print_log: the elision starts one line earlier
_print_log_short(ref_log, printed_header, n_head, n_tail) ==
    (IF printed_header # "" THEN <<Header(printed_header)>> ELSE <<>>)
    \o (IF Len(ref_log) > n_head + n_tail
        THEN [i \in DOMAIN slice_to(ref_log, n_head) |-> Line(ref_log[i])]
             \o <<Skipped(Len(ref_log) - n_head - n_tail)>>
             \o [i \in DOMAIN slice_from_end(ref_log, n_tail) |->
                    Line(slice_from_end(ref_log, n_tail)[i])]
        ELSE [i \in DOMAIN ref_log |-> Line(ref_log[i])])

\* lines 427-440: what _print_log hands to OUT.critical, in order
_print_log(ref_log, printed_header, n_head, n_tail) ==
    (IF printed_header # "" THEN <<Header(printed_header)>> ELSE <<>>)
    \o (IF Len(ref_log) > n_head + n_tail + 1
        THEN [i \in DOMAIN slice_to(ref_log, n_head) |-> Line(ref_log[i])]
             \o <<Skipped(Len(ref_log) - n_head - n_tail)>>
             \o [i \in DOMAIN slice_from_end(ref_log, n_tail) |->
                    Line(slice_from_end(ref_log, n_tail)[i])]
        ELSE [i \in DOMAIN ref_log |-> Line(ref_log[i])])

MaxLog == 23

\* the values given for head_count and tail_count
Counts == {0, 1, head_count}

\* the headers _status_branch passes, and none
Headers == {"", "!! not pushed commits", "!! not merged commits"}

PlIdle ==
    [pc |-> "idle", ref_log |-> <<>>, printed_header |-> "", head_count |-> head_count,
     tail_count |-> tail_count, printed |-> <<>>]

\* the calls of _print_log: a log of n lines, one per commit, a header and the counts
PlCalls ==
    {[PlIdle EXCEPT !.ref_log = [i \in 1..n |-> i], !.printed_header = h,
                    !.head_count = hc, !.tail_count = tc] :
        n \in 0..MaxLog, h \in Headers, hc \in Counts, tc \in Counts}

PrintLog ==
    /\ pl.pc = "idle"
    /\ pl' = [pl EXCEPT !.pc = "done",
                        !.printed = _print_log(pl.ref_log, pl.printed_header,
                                               pl.head_count, pl.tail_count)]

(***************************************************************************)
(* The per-project dispatch: Runtime.execute_git_command                   *)
(***************************************************************************)
False == "False"

\* main.py line 282: batch is None, True (--batch) or False (--interactive)
main_interactive(batch) ==
    IF batch = None THEN None ELSE IF batch = True THEN False ELSE True

\* runtime.py lines 60-64
interactive(r) == IF r._interactive = None THEN r._machine_config ELSE r._interactive

\* a project as a command finds it: path is absent, a directory without .git
\* (dir) or a repository (repo); remotes is the number of configured remotes;
\* fault says what is wrong with it: nothing, the git tool fails on it, or it
\* has more checkout candidates than selector keys
Projects ==
    {[path |-> "absent", remotes |-> 1, fault |-> "none"],
     [path |-> "absent", remotes |-> 1, fault |-> "GitCommandError"],
     [path |-> "absent", remotes |-> 0, fault |-> "none"],
     [path |-> "dir", remotes |-> 1, fault |-> "none"],
     [path |-> "repo", remotes |-> 1, fault |-> "none"],
     [path |-> "repo", remotes |-> 1, fault |-> "GitCommandError"],
     [path |-> "repo", remotes |-> 1, fault |-> "candidates"]}

\* mutant of is_existing: an empty directory counts as not existing
is_existing_nonempty(p) == p.path \notin {"absent", "empty"}

\* mutant of is_existing: every path counts as an existing directory
is_existing_always(p) == TRUE

is_existing(p) == p.path # "absent"

is_initialised(p) == p.path = "repo"

\* how a Project method ends: what it raised, where it left the path, and the
\* prompts it issued, each with its declared default and how ask ended
Outcome(raised, path, prompts) == [raised |-> raised, path |-> path, prompts |-> prompts]

Prompt(default, o) ==
    [default |-> default, kind |-> o.kind, value |-> o.value, nread |-> o.nread]

\* project.py lines 70-72: git.Repo() on a directory that is no repository
link_repo(p) == IF p.path = "repo" THEN "no" ELSE "InvalidGitRepositoryError"

\* project.py lines 74-111; ask is called without autoanswer
clone(p) ==
    IF is_initialised(p) THEN {Outcome("no", p.path, <<>>)}
    ELSE IF is_existing(p) THEN {Outcome("ValueError", p.path, <<>>)}
    ELSE IF p.remotes = 0 THEN {Outcome("ValueError", p.path, <<>>)}
    ELSE {IF o.kind = "KeyboardInterrupt"
          THEN Outcome("KeyboardInterrupt", p.path, <<Prompt("n", o)>>)
          ELSE IF o.value # "y" THEN Outcome("no", p.path, <<Prompt("n", o)>>)
          ELSE IF p.fault = "GitCommandError"
          THEN Outcome("ValueError", p.path, <<Prompt("n", o)>>)
          ELSE Outcome("no", "repo", <<Prompt("n", o)>>) : o \in ask_yes_no}

\* project.py lines 113-131
init(p) ==
    IF is_initialised(p) THEN {Outcome("no", p.path, <<>>)}
    ELSE IF is_existing(p) THEN {Outcome("ValueError", p.path, <<>>)}
    ELSE {IF o.kind = "KeyboardInterrupt"
          THEN Outcome("KeyboardInterrupt", p.path, <<Prompt("n", o)>>)
          ELSE IF o.value # "y" THEN Outcome("no", p.path, <<Prompt("n", o)>>)
          ELSE Outcome("no", "repo", <<Prompt("n", o)>>) : o \in ask_yes_no}

\* the start of fetch, checkout, merge, push, collect_garbage and status: the
\* outcome if the method ends there, or <<>> if it goes on
skip_or_link(p) ==
    IF ~is_existing(p) THEN <<Outcome("no", p.path, <<>>)>>
    ELSE IF link_repo(p) # "no" THEN <<Outcome(link_repo(p), p.path, <<>>)>>
    ELSE <<>>

\* project.py lines 133-151 and 170-179
fetch(p) ==
    IF skip_or_link(p) # <<>> THEN Range(skip_or_link(p))
    ELSE IF p.fault = "GitCommandError" THEN {Outcome("ValueError", p.path, <<>>)}
    ELSE {Outcome("no", p.path, <<>>)}

\* project.py lines 205-243, for a repository with one branch
checkout(p) ==
    IF skip_or_link(p) # <<>> THEN Range(skip_or_link(p))
    ELSE IF p.fault = "candidates" THEN {Outcome("RuntimeError", p.path, <<>>)}
    ELSE {IF o.kind = "KeyboardInterrupt"
          THEN Outcome("KeyboardInterrupt", p.path, <<Prompt("n", o)>>)
          ELSE Outcome("no", p.path, <<Prompt("n", o)>>) :
              o \in prompt_outcomes(<<"1", "n">>, None, None, CheckoutKeystrokes)}

\* project.py lines 298-305
merge(p) ==
    IF skip_or_link(p) # <<>> THEN Range(skip_or_link(p))
    ELSE {Outcome("NotImplementedError", p.path, <<>>)}

\* project.py lines 307-347: the snapshot of a new Project was never refreshed,
\* so that there is no active branch at line 324
push(p, all_branches) ==
    IF skip_or_link(p) # <<>> THEN Range(skip_or_link(p))
    ELSE IF all_branches THEN {Outcome("NotImplementedError", p.path, <<>>)}
    ELSE {Outcome("no", p.path, <<>>)}

\* project.py lines 377-389
collect_garbage(p) ==
    IF skip_or_link(p) # <<>> THEN Range(skip_or_link(p))
    ELSE IF p.fault = "GitCommandError" THEN {Outcome("ValueError", p.path, <<>>)}
    ELSE {Outcome("no", p.path, <<>>)}

\* project.py lines 391-415, for a repository whose branch has no tracking
\* branch and whose remotes are as configured
status(p) ==
    IF skip_or_link(p) # <<>> THEN Range(skip_or_link(p))
    ELSE IF p.fault = "GitCommandError" THEN {Outcome("ValueError", p.path, <<>>)}
    ELSE {Outcome("no", p.path, <<>>)}

GitCommands == {"clone", "init", "fetch", "checkout", "merge", "push", "gc", "status"}

\* runtime.py lines 147-150: getattr(project, command)(**command_options)
implementation(command, option, p) ==
    CASE command = "clone" -> clone(p)
      [] command = "init" -> init(p)
      [] command = "fetch" -> fetch(p)
      [] command = "checkout" -> checkout(p)
      [] command = "merge" -> merge(p)
      [] command = "push" -> push(p, option)
      [] command = "gc" -> collect_garbage(p)
      [] command = "status" -> status(p)

\* mutant of is_caught: except Exception
is_caught_exception(raised) == raised \notin {"no", "KeyboardInterrupt"}

\* mutant of is_caught: a bare except, which catches KeyboardInterrupt too
is_caught_anything(raised) == raised # "no"

\* runtime.py line 153: except RuntimeError, of which NotImplementedError is a
\* subclass
is_caught(raised) == raised \in {"RuntimeError", "NotImplementedError"}

MaxProjects == 2

RtIdle ==
    [pc |-> "idle", batch |-> None, _interactive |-> None, _machine_config |-> True,
     command |-> "status", option |-> FALSE, filtered_projects |-> <<>>, i |-> 1,
     executed |-> <<>>, logged |-> <<>>, prompts |-> <<>>, raised |-> "no"]

\* main() up to runtime.execute: the mode, the command and the filtered projects
RtStarts ==
    {[RtIdle EXCEPT !.pc = "loop", !.batch = b, !._interactive = main_interactive(b),
                    !._machine_config = m, !.command = c, !.option = opt,
                    !.filtered_projects = ps] :
        b \in {None, True, False}, m \in {True, False},
        c \in GitCommands, opt \in BOOLEAN,
        ps \in UNION {[1..n -> Projects] : n \in 1..MaxProjects}}

\* runtime.py lines 149-154: one turn of the loop of execute_git_command
ExecuteProject ==
    /\ rt.pc = "loop"
    /\ rt.i <= Len(rt.filtered_projects)
    /\ \E o \in implementation(rt.command, rt.option, rt.filtered_projects[rt.i]) :
          LET goes_on == o.raised = "no" \/ is_caught(o.raised)
          IN  rt' = [rt EXCEPT
                       !.filtered_projects[rt.i].path = o.path,
                       !.executed = Append(@, o.raised),
                       !.prompts = @ \o o.prompts,
                       !.logged = IF is_caught(o.raised) THEN Append(@, rt.i) ELSE @,
                       !.pc = IF goes_on THEN "loop" ELSE "raised",
                       !.raised = IF goes_on THEN @ ELSE o.raised,
                       !.i = @ + 1]

\* the loop is over and execute returns to main
ExecuteReturn ==
    /\ rt.pc = "loop"
    /\ rt.i > Len(rt.filtered_projects)
    /\ rt' = [rt EXCEPT !.pc = "returned"]

(***************************************************************************)
(* execute_command: the shell command run in each filtered project         *)
(***************************************************************************)
\* mutant of is_handled: only the timeout is handled
is_handled_timeout(raised) == raised = "TimeoutExpired"

\* runtime.py lines 163 and 167: the exceptions of subprocess.run that
\* execute_command handles
is_handled(raised) == raised \in {"TimeoutExpired", "CalledProcessError"}

\* how subprocess.run(cmd, check=True, timeout=timeout) can end: the timeout
\* only expires when one is given
run_outcomes(timeout) ==
    {"no", "CalledProcessError"} \cup (IF timeout THEN {"TimeoutExpired"} ELSE {})

\* main() up to runtime.execute('foreach', cmd, timeout): option tells whether a
\* timeout is given
FeStarts ==
    {[RtIdle EXCEPT !.pc = "loop", !.batch = b, !._interactive = main_interactive(b),
                    !.command = "foreach", !.option = timeout,
                    !.filtered_projects = ps] :
        b \in {None, True, False}, timeout \in BOOLEAN,
        ps \in UNION {[1..n -> Projects] : n \in 1..MaxProjects}}

\* runtime.py lines 158-170: one turn of the loop of execute_command
ExecuteCommandProject ==
    /\ rt.pc = "loop"
    /\ rt.i <= Len(rt.filtered_projects)
    /\ IF ~is_existing(rt.filtered_projects[rt.i])
       THEN rt' = [rt EXCEPT !.executed = Append(@, "skipped"), !.i = @ + 1]
       ELSE \E raised \in run_outcomes(rt.option) :
                LET goes_on == raised = "no" \/ is_handled(raised)
                IN  rt' = [rt EXCEPT
                             !.executed = Append(@, raised),
                             !.logged = IF is_handled(raised) THEN Append(@, rt.i) ELSE @,
                             !.pc = IF goes_on THEN "loop" ELSE "raised",
                             !.raised = IF goes_on THEN @ ELSE raised,
                             !.i = @ + 1]

\* the loop is over and execute_command returns
ExecuteCommandReturn ==
    /\ rt.pc = "loop"
    /\ rt.i > Len(rt.filtered_projects)
    /\ rt' = [rt EXCEPT !.pc = "returned"]

(***************************************************************************)
(* Project: the methods behind the git commands, run on one Project over   *)
(* its directory, the repository in it and the snapshot it holds           *)
(***************************************************************************)
\* Project.remotes, the configured remotes in their order
ProjectRemotes == {<<>>, << <<"o">> >>, << <<"o">>, <<"u">> >>}

\* what can be at Project.path: nothing, an empty directory, a directory with
\* files but no .git entry, or a repository
Paths == {"absent", "empty", "files", "repo"}

PrIdle ==
    [pc |-> "idle", path |-> "absent", linked |-> FALSE, remotes |-> <<>>,
     method |-> "none", option |-> FALSE, raised |-> "no", prompts |-> <<>>,
     git |-> <<>>, warned |-> <<>>, called_on |-> "absent", called_linked |-> FALSE]

\* a, b = value with n names on the left: None is not iterable and a tuple of
\* another length does not unpack
unpack(value, n) ==
    IF value = <<>> THEN "TypeError"
    ELSE IF Len(value) # n THEN "ValueError"
    ELSE "no"

\* repo_data.py lines 23-30: the snapshot of a RepoData that was just built
RepoData == EmptyRepoData

\* how a method leaves the Project, the repository and the snapshot when it
\* changes nothing
Unchanged ==
    [raised |-> "no", path |-> pr.path, linked |-> pr.linked, snap |-> rd,
     repo |-> repo, prompts |-> <<>>, git |-> <<>>, warned |-> <<>>, pc |-> "done"]

\* if self.repo is None: self.link_repo()
Linked ==
    IF pr.linked THEN Unchanged
    ELSE IF link_repo(pr) # "no" THEN [Unchanged EXCEPT !.raised = link_repo(pr)]
    ELSE [Unchanged EXCEPT !.linked = TRUE, !.snap = RepoData]

\* self.repo.refresh() after the linking
Refreshed ==
    IF Linked.raised # "no" THEN Linked
    ELSE LET snap == refresh(Linked.snap, repo)
         IN  [Linked EXCEPT !.snap = snap, !.raised = snap.raised]

\* the Project after a method ran
Finish(method, option, res) ==
    /\ pr' = [pr EXCEPT !.pc = res.pc, !.method = method, !.option = option,
                        !.path = res.path, !.linked = res.linked,
                        !.raised = res.raised, !.prompts = res.prompts,
                        !.git = res.git, !.warned = res.warned,
                        !.called_on = pr.path, !.called_linked = pr.linked]
    /\ rd' = res.snap
    /\ repo' = res.repo

\* whether a git command of the method fails
GitFaults == {"none", "GitCommandError"}

\* the repository that git clone --origin <remote_name> leaves at the path
cloned(remote_name) ==
    [branches |-> << <<"m">> >>, head |-> <<"m">>,
     upstream |-> [b \in Range(LocalNames) |->
                      IF b = <<"m">> THEN <<remote_name, <<"m">> >> ELSE <<>>],
     remotes |-> <<[name |-> remote_name, refs |-> RemoteRefNames(remote_name)]>>,
     tags |-> <<>>]

\* git remote add <name> <url>
remote_added(r, name) ==
    [r EXCEPT !.remotes = Append(r.remotes, [name |-> name, refs |-> <<>>])]

\* project.py lines 170-179 on a remote that has nothing new
_fetch_remote(res, remote_name, fault) ==
    [res EXCEPT !.git = Append(@, <<"fetch", remote_name>>),
                !.raised = IF fault = "GitCommandError" THEN "ValueError" ELSE @]

\* project.py lines 192-194: the remotes are fetched in order, up to the first
\* one whose fetch raises
RECURSIVE _fetch_remotes(_, _, _)
_fetch_remotes(res, remote_names, failing) ==
    IF remote_names = <<>> \/ res.raised # "no" THEN res
    ELSE _fetch_remotes(
             _fetch_remote(res, remote_names[1],
                           IF remote_names[1] \in failing THEN "GitCommandError"
                           ELSE "none"),
             Tail(remote_names), failing)

\* project.py lines 108-111: the remaining remotes of clone
RECURSIVE clone_remaining(_, _, _)
clone_remaining(res, remaning_remotes, failing) ==
    IF remaning_remotes = <<>> \/ res.raised # "no" THEN res
    ELSE LET name == remaning_remotes[1]
             added == remote_added(res.repo, name)
             snap == refresh(res.snap, added)
             refreshed == [res EXCEPT !.repo = added, !.snap = snap,
                                      !.raised = snap.raised]
         IN  clone_remaining(
                 IF refreshed.raised # "no" THEN refreshed
                 ELSE _fetch_remote(refreshed, name,
                                    IF name \in failing THEN "GitCommandError"
                                    ELSE "none"),
                 Tail(remaning_remotes), failing)

\* project.py lines 74-111
Clone ==
    /\ pr.pc = "ready"
    /\ \E o \in ask_yes_no, fault \in GitFaults, failing \in SUBSET GitRemoteNames :
          Finish("clone", FALSE,
              IF is_initialised(pr) THEN Unchanged
              ELSE IF is_existing(pr) THEN [Unchanged EXCEPT !.raised = "ValueError"]
              ELSE IF pr.remotes = <<>> THEN [Unchanged EXCEPT !.raised = "ValueError"]
              ELSE LET asked == [Unchanged EXCEPT !.prompts = <<Prompt("n", o)>>]
                   IN  IF o.kind = "KeyboardInterrupt"
                       THEN [asked EXCEPT !.raised = "KeyboardInterrupt"]
                       ELSE IF o.value # "y"
                       THEN [asked EXCEPT !.warned = <<"skipping">>]
                       ELSE IF fault = "GitCommandError"
                       THEN [asked EXCEPT !.raised = "ValueError",
                                          !.git = <<<<"clone", pr.remotes[1]>>>>]
                       ELSE clone_remaining(
                                [asked EXCEPT !.git = <<<<"clone", pr.remotes[1]>>>>,
                                              !.path = "repo", !.linked = TRUE,
                                              !.snap = RepoData,
                                              !.repo = cloned(pr.remotes[1])],
                                Tail(pr.remotes), failing))

\* project.py lines 130-131: git remote add for each configured remote
RECURSIVE init_remotes(_, _)
init_remotes(r, remotes) ==
    IF remotes = <<>> THEN r
    ELSE init_remotes(remote_added(r, remotes[1]), Tail(remotes))

\* project.py lines 113-131
ProjectInit ==
    /\ pr.pc = "ready"
    /\ \E o \in ask_yes_no :
          Finish("init", FALSE,
              IF is_initialised(pr) THEN Unchanged
              ELSE IF is_existing(pr) THEN [Unchanged EXCEPT !.raised = "ValueError"]
              ELSE LET asked == [Unchanged EXCEPT !.prompts = <<Prompt("n", o)>>]
                   IN  IF o.kind = "KeyboardInterrupt"
                       THEN [asked EXCEPT !.raised = "KeyboardInterrupt"]
                       ELSE IF o.value # "y"
                       THEN [asked EXCEPT !.warned = <<"skipping">>]
                       ELSE [asked EXCEPT !.git = <<<<"init">>>>,
                                          !.path = "repo", !.linked = TRUE,
                                          !.snap = RepoData,
                                          !.repo = init_remotes(repo, pr.remotes)])

\* project.py lines 153-168: the remotes to fetch, or what the selection raises
_determine_remotes_to_fetch(snap) ==
    IF snap._active_branch = NoBranch
    THEN [raised |-> "no", remote_names |-> snap.remotes,
          warned |-> <<"not on any branch, fetching all remotes">>]
    ELSE IF snap._active_branch \notin Keys(snap.tracking_branches)
    THEN \* except KeyError
         [raised |-> "no", remote_names |-> snap.remotes, warned |-> <<>>]
    ELSE LET tracking == Lookup(snap.tracking_branches, snap._active_branch)
         IN  IF unpack(tracking, 2) = "TypeError"
             THEN \* except TypeError
                  [raised |-> "no", remote_names |-> snap.remotes,
                   warned |-> <<"has no tracking branch, fetching all remotes">>]
             ELSE IF unpack(tracking, 2) # "no"
             THEN [raised |-> unpack(tracking, 2), remote_names |-> <<>>,
                   warned |-> <<>>]
             ELSE [raised |-> "no", remote_names |-> <<tracking[1]>>, warned |-> <<>>]

\* project.py lines 133-151
Fetch ==
    /\ pr.pc = "ready"
    /\ \E all_remotes \in BOOLEAN, failing \in SUBSET GitRemoteNames :
          Finish("fetch", all_remotes,
              IF ~is_existing(pr) THEN Unchanged
              ELSE IF Refreshed.raised # "no" THEN Refreshed
              ELSE IF all_remotes
              THEN _fetch_remotes(Refreshed, Refreshed.snap.remotes, failing)
              ELSE LET selected == _determine_remotes_to_fetch(Refreshed.snap)
                       warned == [Refreshed EXCEPT !.warned = selected.warned]
                   IN  IF selected.raised # "no"
                       THEN [warned EXCEPT !.raised = selected.raised]
                       ELSE _fetch_remotes(warned, selected.remote_names, failing))

\* project.py lines 205-243
Checkout ==
    /\ pr.pc = "ready"
    /\ LET list == _prepare_checkout_list(keys, Refreshed.snap, repo)
       IN  IF ~is_existing(pr) THEN Finish("checkout", FALSE, Unchanged)
           ELSE IF Refreshed.raised # "no" THEN Finish("checkout", FALSE, Refreshed)
           ELSE IF list.raised # "no"
           THEN Finish("checkout", FALSE, [Refreshed EXCEPT !.raised = list.raised])
           ELSE \E o \in prompt_outcomes(
                             Append(slice_to(keys, Len(list.revisions)), "n"),
                             None, None, CheckoutKeystrokes) :
                    LET asked == [Refreshed EXCEPT !.prompts = <<Prompt("n", o)>>]
                    IN  Finish("checkout", FALSE,
                            IF o.kind = "KeyboardInterrupt"
                            THEN [asked EXCEPT !.raised = "KeyboardInterrupt"]
                            ELSE IF o.value = "n" THEN asked
                            ELSE IF o.value \notin Keys(list.revisions)
                            THEN [asked EXCEPT !.raised = "KeyError"]
                            ELSE LET target == Lookup(list.revisions, o.value).target
                                 IN  IF is_active_branch(target, Refreshed.snap)
                                     THEN asked
                                     ELSE [asked EXCEPT
                                             !.git = <<<<"checkout", str(target)>>>>,
                                             !.repo = git_checkout(repo, str(target))])

\* project.py lines 298-305
Merge ==
    /\ pr.pc = "ready"
    /\ Finish("merge", FALSE,
              IF ~is_existing(pr) THEN Unchanged
              ELSE IF Linked.raised # "no" THEN Linked
              ELSE [Linked EXCEPT !.raised = "NotImplementedError"])

\* project.py lines 332-338 and 353-355: the remote and the refspec of the push
\* of local_branch, or what finding them raises
push_target(snap, local_branch) ==
    IF local_branch \notin Keys(snap.tracking_branches)
    THEN [raised |-> "KeyError", remote |-> <<>>, refspec |-> <<>>, warned |-> <<>>]
    ELSE LET tracking_branch_ == Lookup(snap.tracking_branches, local_branch)
         IN  IF tracking_branch_ = <<>>
             THEN IF snap.remotes = <<>>
                  THEN [raised |-> "StopIteration", remote |-> <<>>,
                        refspec |-> <<>>, warned |-> <<>>]
                  ELSE [raised |-> "no", remote |-> snap.remotes[1],
                        refspec |-> local_branch, warned |-> <<"pushing">>]
             ELSE IF unpack(tracking_branch_, 2) # "no"
             THEN [raised |-> unpack(tracking_branch_, 2), remote |-> <<>>,
                   refspec |-> <<>>, warned |-> <<>>]
             ELSE [raised |-> "no", remote |-> tracking_branch_[1],
                   refspec |-> local_branch \o <<":">> \o tracking_branch_[2],
                   warned |-> <<>>]

\* project.py lines 307-366
Push ==
    /\ pr.pc = "ready"
    /\ \E all_branches \in BOOLEAN, fault \in GitFaults :
          Finish("push", all_branches,
              IF ~is_existing(pr) THEN Unchanged
              ELSE IF Linked.raised # "no" THEN Linked
              ELSE IF all_branches THEN [Linked EXCEPT !.raised = "NotImplementedError"]
              ELSE IF Linked.snap._active_branch = NoBranch
              THEN [Linked EXCEPT !.warned = <<"no active branch">>]
              ELSE LET t == push_target(Linked.snap, Linked.snap._active_branch)
                   IN  IF t.raised # "no"
                       THEN [Linked EXCEPT !.raised = t.raised]
                       ELSE [Linked EXCEPT
                               !.warned = t.warned,
                               !.git = <<<<"push", t.remote, t.refspec>>>>,
                               !.raised = IF fault = "GitCommandError"
                                          THEN "ValueError" ELSE "no"])

\* project.py lines 377-389
CollectGarbage ==
    /\ pr.pc = "ready"
    /\ \E fault \in GitFaults :
          Finish("gc", FALSE,
              IF ~is_existing(pr) THEN Unchanged
              ELSE IF Linked.raised # "no" THEN Linked
              ELSE [Linked EXCEPT !.git = <<<<"gc">>>>,
                                  !.raised = IF fault = "GitCommandError"
                                             THEN "ValueError" ELSE "no"])

\* project.py lines 442-458: _status_branch up to the name of the tracking
\* branch; '/'.join() of a tuple that holds a Reference raises TypeError
_status_branch(res) ==
    LET branch == res.snap._active_branch
    IN  IF branch = NoBranch
        THEN [res EXCEPT !.warned = <<"not on any branch">>]
        ELSE IF branch \notin Keys(res.snap.tracking_branches)
        THEN [res EXCEPT !.raised = "KeyError"]
        ELSE IF Lookup(res.snap.tracking_branches, branch) = <<>>
        THEN [res EXCEPT !.warned = <<"current branch has no tracking branch">>]
        ELSE [res EXCEPT !.raised = "TypeError"]

\* project.py lines 391-415; the method ends in _status_remotes, whose pc says
\* that the reconciliation of the remotes starts
Status ==
    /\ pr.pc = "ready"
    /\ \E ignored \in BOOLEAN, fault \in GitFaults :
          Finish("status", ignored,
              IF ~is_existing(pr) THEN Unchanged
              ELSE IF Linked.raised # "no" THEN Linked
              ELSE IF fault = "GitCommandError"
              THEN [Linked EXCEPT !.git = <<<<"status">>>>, !.raised = "ValueError"]
              ELSE LET snap == refresh(Linked.snap, repo)
                       refreshed == [Linked EXCEPT !.git = <<<<"status">>>>,
                                                   !.snap = snap, !.raised = snap.raised]
                   IN  IF refreshed.raised # "no" THEN refreshed
                       ELSE IF _status_branch(refreshed).raised # "no"
                       THEN _status_branch(refreshed)
                       ELSE [_status_branch(refreshed) EXCEPT !.pc = "_status_remotes"])

\* the Projects a method is called on: a new one, or one that an earlier method
\* linked, with the snapshot either never refreshed or refreshed
PrStarts ==
    {[PrIdle EXCEPT !.pc = "ready", !.path = p, !.linked = l, !.remotes = c,
                    !.called_on = p, !.called_linked = l] :
        p \in Paths, l \in BOOLEAN, c \in ProjectRemotes}

(***************************************************************************)
(* register_repository: the repositories configuration of a Runtime        *)
(***************************************************************************)
\* ord() of a letter
ord(c) ==
    IF \E i \in DOMAIN UpperChars : UpperChars[i] = c
    THEN 64 + (CHOOSE i \in DOMAIN UpperChars : UpperChars[i] = c)
    ELSE 96 + (CHOOSE i \in DOMAIN LowerChars : LowerChars[i] = c)

\* mutant of str_lower: the string as it is
str_as_is(s) == s

\* str.lower() of a string
str_lower(s) == [i \in DOMAIN s |-> lower(s[i])]

\* a > b on strings
RECURSIVE str_gt(_, _)
str_gt(a, b) ==
    IF a = <<>> THEN FALSE
    ELSE IF b = <<>> THEN TRUE
    ELSE IF a[1] # b[1] THEN ord(a[1]) > ord(b[1])
    ELSE str_gt(Tail(a), Tail(b))

\* the directories that hold a repository, all in the directory /w of a file
\* system that tells the case of letters apart
DirNames == {<<"a">>, <<"A">>, <<"b">>, <<"a", "b">>}

ParentDir == << <<"w">> >>

CurDir == <<".">>

UpDir == <<".", ".">>

\* the ways to name the directory dir on the command line from cwd
PathsTo(dir, cwd) ==
    {[absolute |-> TRUE, parts |-> Append(ParentDir, dir)],
     [absolute |-> FALSE, parts |-> <<UpDir, dir>>]}
    \cup (IF cwd = Append(ParentDir, dir)
          THEN {[absolute |-> FALSE, parts |-> <<CurDir>>]} ELSE {})

\* os.path.normpath on the parts of an absolute path
RECURSIVE normpath(_, _)
normpath(done, parts) ==
    IF parts = <<>> THEN done
    ELSE IF parts[1] = CurDir THEN normpath(done, Tail(parts))
    ELSE IF parts[1] = UpDir
    THEN normpath(IF done = <<>> THEN done ELSE SubSeq(done, 1, Len(done) - 1),
                  Tail(parts))
    ELSE normpath(Append(done, parts[1]), Tail(parts))

\* git.Repo(str(path)).working_tree_dir: the absolute, normalised path
working_tree_dir(path, cwd) ==
    normpath(<<>>, IF path.absolute THEN path.parts ELSE cwd \o path.parts)

\* pathlib.Path.name
path_name(parts) == IF parts = <<>> THEN <<>> ELSE parts[Len(parts)]

NoPath == [kind |-> "none", parts |-> <<>>]

\* runtime.py lines 286-321, on a path that resolves to itself
_postprocess_configured_repo_path(repo_config, repos_path) ==
    LET absolute_repo_path == repo_config.path.parts
        n == Len(repos_path)
    IN  IF repos_path = <<>>
        THEN repo_config
        ELSE IF ~(Len(absolute_repo_path) >= n /\ SubSeq(absolute_repo_path, 1, n) = repos_path)
        THEN repo_config
        ELSE LET repo_path == SubSeq(absolute_repo_path, n + 1, Len(absolute_repo_path))
             IN  IF repo_path = <<repo_config.name>>
                 THEN [repo_config EXCEPT !.path = NoPath]
                 ELSE [repo_config EXCEPT !.path = [kind |-> "relative", parts |-> repo_path]]

\* repo_data.py lines 125-133, without the remotes
generate_repo_configuration(dir) ==
    [name |-> path_name(dir), path |-> [kind |-> "absolute", parts |-> dir], tags |-> <<>>]

\* runtime.py lines 273-281: the index of the first project whose name sorts
\* after the new one, and whether a project of that name exists
RECURSIVE find_index(_, _, _, _)
find_index(projects, i, index, lowercase_name) ==
    IF i > Len(projects) THEN [raised |-> "no", index |-> index]
    ELSE LET lowercase_project_name == str_lower(projects[i])
             index_ == IF index = 0 /\ str_gt(lowercase_project_name, lowercase_name)
                       THEN i ELSE index
         IN  IF lowercase_project_name = lowercase_name
             THEN [raised |-> "ValueError", index |-> index_]
             ELSE find_index(projects, i + 1, index_, lowercase_name)

\* two project names that differ at most in the case of letters
names_equal(a, b) ==
    Len(a) = Len(b) /\ \A i \in DOMAIN a : lower(a[i]) = lower(b[i])

\* list.insert(index, item), for index counted from 1
insert(s, index, item) ==
    SubSeq(s, 1, index - 1) \o <<item>> \o SubSeq(s, index, Len(s))

\* the names of the entries of a configuration
names(repos) == [i \in DOMAIN repos |-> repos[i].name]

MaxRegistered == 2

MaxCalls == 2

\* repos_path of the machine configuration: not set, /w or /x
ReposPaths == {<<>>, ParentDir, << <<"x">> >>}

\* the configurations a repositories file may hold when it is loaded: the
\* names of its entries differ in more than the case of letters
LoadedConfigs ==
    UNION {{c \in [1..n -> {_postprocess_configured_repo_path(
                               generate_repo_configuration(Append(ParentDir, d)), ParentDir) :
                            d \in DirNames}] :
               \A i, j \in 1..n : i # j => ~names_equal(c[i].name, c[j].name)} :
           n \in 0..MaxRegistered}

RgIdle ==
    [pc |-> "idle", cwd |-> ParentDir, repos_path |-> <<>>, projects |-> <<>>,
     repos |-> <<>>, file |-> <<>>, calls |-> 0, path |-> [absolute |-> TRUE, parts |-> <<>>],
     name |-> <<>>, raised |-> "no", loaded |-> <<>>, prev_repos |-> <<>>, prev_file |-> <<>>]

\* runtime.py lines 37-50 and 88-110: a Runtime after construction
RgStarts ==
    {[RgIdle EXCEPT !.pc = "ready", !.cwd = Append(ParentDir, d), !.repos_path = rp,
                    !.projects = names(c), !.repos = c, !.file = c, !.loaded = names(c)] :
        d \in DirNames, rp \in ReposPaths, c \in LoadedConfigs}

\* runtime.py lines 260-285
RegisterRepository ==
    /\ rg.pc = "ready"
    /\ rg.calls < MaxCalls
    /\ \E dir \in DirNames, tags \in {<<>>, <<"t">>} :
       \E path \in PathsTo(dir, rg.cwd) :
          LET generated == generate_repo_configuration(working_tree_dir(path, rg.cwd))
              processed == _postprocess_configured_repo_path(generated, rg.repos_path)
              repo_config == [processed EXCEPT !.tags = @ \o tags]
              found == find_index(rg.projects, 1, 0, str_lower(repo_config.name))
              index == IF found.index = 0 THEN Len(rg.projects) + 1 ELSE found.index
              repos == insert(rg.repos, index, repo_config)
          IN  rg' = [rg EXCEPT
                       !.calls = @ + 1, !.path = path, !.name = repo_config.name,
                       !.raised = found.raised,
                       !.prev_repos = rg.repos, !.prev_file = rg.file,
                       !.repos = IF found.raised = "no" THEN repos ELSE @,
                       !.file = IF found.raised = "no" THEN repos ELSE @]

\* main.py lines 270-289: the next run of ingit builds its Runtime from the
\* repositories file
NewRuntime ==
    /\ rg.pc = "ready"
    /\ rg.calls > 0
    /\ rg.projects # names(rg.file)
    /\ rg' = [rg EXCEPT !.projects = names(rg.file), !.repos = rg.file,
                        !.loaded = names(rg.file), !.path = RgIdle.path,
                        !.name = <<>>, !.raised = "no",
                        !.prev_repos = rg.file, !.prev_file = rg.file]

(***************************************************************************)
(* ask: one call, with its arguments and the keystrokes that readchar      *)
(* will deliver                                                            *)
(***************************************************************************)
\* the letters of the declared answers
AskChars == {"y", "n", "N"}

MaxAnswers == 2

\* answers: None, written <<>>, or a sequence of different letters (lines 52-59)
AskAnswers ==
    {<<>>} \cup UNION {{a \in [1..n -> AskChars] : \A i, j \in 1..n : i # j => a[i] # a[j]} :
                       n \in 1..MaxAnswers}

\* what the user may type at the prompt
AskKeys == {"y", "n", "N", "q", "\r", "\n", ETX}

AkIdle ==
    [pc |-> "idle", answers |-> <<>>, default |-> None, autoanswer |-> None,
     keystrokes |-> <<>>, result |-> [kind |-> "blocked", value |-> None, nread |-> 0]]

\* the calls that pass the assertions of lines 52-68
AkStarts ==
    {[AkIdle EXCEPT !.pc = "ready", !.answers = a, !.default = d, !.autoanswer = u,
                    !.keystrokes = k] :
        a \in AskAnswers,
        d \in {None} \cup AskChars,
        u \in {None, True} \cup AskChars,
        k \in KeystrokeSeqs(AskKeys)}

\* lines 60-68: the default and the autoanswer are declared answers
AskAccepts(a) ==
    LET answers == IF a.answers = <<>> THEN <<"y", "n">> ELSE a.answers
    IN  /\ a.default \in {None} \cup Range(answers)
        /\ a.autoanswer \in {None, True} \cup Range(answers)

\* runtime_interface.py lines 34-91
Ask ==
    /\ ak.pc = "ready"
    /\ ak' = [ak EXCEPT !.pc = "done",
                        !.result = ask(ak.answers, ak.default, ak.autoanswer,
                                       ak.keystrokes)]

(***************************************************************************)
(* The specifications: one per part of the program, the variables of the   *)
(* other parts staying as constructed.                                     *)
(***************************************************************************)
vars == <<project_remotes, git_remotes, sr, events, repo, rd, hist, co, pl, rt, pr, rg, ak>>

EmptyRepo ==
    [branches |-> <<>>, head |-> <<"m">>, upstream |-> [b \in Range(LocalNames) |-> <<>>],
     remotes |-> <<>>, tags |-> <<>>]

RemotesIdle ==
    /\ project_remotes = <<>>
    /\ git_remotes = <<>>
    /\ sr = SrIdle
    /\ events = <<>>

RepoDataIdle ==
    /\ repo = EmptyRepo
    /\ rd = EmptyRepoData
    /\ hist = HistInit

CheckoutIdle == co = CoIdle

PrintLogIdle == pl = PlIdle

RuntimeIdle == rt = RtIdle

ProjectIdle == pr = PrIdle

RegisterIdle == rg = RgIdle

AskIdle == ak = AkIdle

\* Project._status_remotes
not_remotes_vars == <<repo, rd, hist, co, pl, rt, pr, rg, ak>>

InitRemotes ==
    /\ project_remotes \in RemoteMaps
    /\ git_remotes \in RemoteMaps
    /\ sr = SrIdle
    /\ events = <<>>
    /\ RepoDataIdle
    /\ CheckoutIdle
    /\ PrintLogIdle
    /\ RuntimeIdle
    /\ ProjectIdle
    /\ RegisterIdle
    /\ AskIdle

NextRemotes ==
    \/ StatusRemotesBegin /\ UNCHANGED not_remotes_vars
    \/ StatusRemotesExtra /\ UNCHANGED not_remotes_vars
    \/ StatusRemotesExtraEnd /\ UNCHANGED not_remotes_vars
    \/ StatusRemotesMissing /\ UNCHANGED not_remotes_vars
    \/ StatusRemotesEnd /\ UNCHANGED not_remotes_vars

SpecRemotes == InitRemotes /\ [][NextRemotes]_vars

\* status run again and again with every offer accepted
\* every answer given in this step is y
Accepted == \A i \in DOMAIN events' : events'[i][1] = "answer" => events'[i][2] = "y"

InitConverge == InitRemotes

NextConverge ==
    \/ StatusRemotesBegin /\ UNCHANGED not_remotes_vars
    \/ StatusRemotesExtra /\ Accepted /\ UNCHANGED not_remotes_vars
    \/ StatusRemotesExtraEnd /\ UNCHANGED not_remotes_vars
    \/ StatusRemotesMissing /\ Accepted /\ UNCHANGED not_remotes_vars
    \/ StatusRemotesEnd /\ UNCHANGED not_remotes_vars
    \/ StatusAgain /\ UNCHANGED not_remotes_vars

\* the user keeps running status and each run goes on to its end
SpecConverge == InitConverge /\ [][NextConverge]_vars /\ WF_vars(NextConverge)

\* RepoData over a repository that changes between refreshes
not_repodata_vars == <<project_remotes, git_remotes, sr, events, co, pl, rt, pr, rg, ak>>

InitRepoData ==
    /\ repo \in RepoStates
    /\ rd = EmptyRepoData
    /\ hist = HistInit
    /\ RemotesIdle
    /\ CheckoutIdle
    /\ PrintLogIdle
    /\ RuntimeIdle
    /\ ProjectIdle
    /\ RegisterIdle
    /\ AskIdle

NextRepoData ==
    \/ Refresh /\ UNCHANGED not_repodata_vars
    \/ GitCheckout /\ UNCHANGED not_repodata_vars
    \/ GitBranch /\ UNCHANGED not_repodata_vars
    \/ GitBranchDelete /\ UNCHANGED not_repodata_vars
    \/ GitSetUpstream /\ UNCHANGED not_repodata_vars
    \/ GitRemoteAdd /\ UNCHANGED not_repodata_vars
    \/ GitRemoteRemove /\ UNCHANGED not_repodata_vars
    \/ GitFetch /\ UNCHANGED not_repodata_vars

SpecRepoData == InitRepoData /\ [][NextRepoData]_vars

\* Project.checkout
not_checkout_vars == <<project_remotes, git_remotes, sr, events, hist, pl, rt, pr, rg, ak>>

InitCheckout ==
    /\ \/ repo \in CheckoutRepos /\ co = CoIdle
       \/ repo = EmptyRepo /\ co = [CoIdle EXCEPT !.existing = FALSE]
    /\ rd = EmptyRepoData
    /\ hist = HistInit
    /\ RemotesIdle
    /\ PrintLogIdle
    /\ RuntimeIdle
    /\ ProjectIdle
    /\ RegisterIdle
    /\ AskIdle

NextCheckout ==
    \/ CheckoutList /\ UNCHANGED not_checkout_vars
    \/ CheckoutAnswer /\ UNCHANGED not_checkout_vars

SpecCheckout == InitCheckout /\ [][NextCheckout]_vars

\* Project._print_log
not_printlog_vars == <<project_remotes, git_remotes, sr, events, repo, rd, hist, co, rt, pr, rg, ak>>

InitPrintLog ==
    /\ pl \in PlCalls
    /\ RemotesIdle
    /\ RepoDataIdle
    /\ CheckoutIdle
    /\ RuntimeIdle
    /\ ProjectIdle
    /\ RegisterIdle
    /\ AskIdle

NextPrintLog == PrintLog /\ UNCHANGED not_printlog_vars

SpecPrintLog == InitPrintLog /\ [][NextPrintLog]_vars

\* Runtime.execute_git_command
not_runtime_vars == <<project_remotes, git_remotes, sr, events, repo, rd, hist, co, pl, pr, rg, ak>>

InitRuntime ==
    /\ rt \in RtStarts
    /\ RemotesIdle
    /\ RepoDataIdle
    /\ CheckoutIdle
    /\ PrintLogIdle
    /\ ProjectIdle
    /\ RegisterIdle
    /\ AskIdle

NextRuntime ==
    \/ ExecuteProject /\ UNCHANGED not_runtime_vars
    \/ ExecuteReturn /\ UNCHANGED not_runtime_vars

SpecRuntime == InitRuntime /\ [][NextRuntime]_vars

\* Runtime.execute_command
InitForeach ==
    /\ rt \in FeStarts
    /\ RemotesIdle
    /\ RepoDataIdle
    /\ CheckoutIdle
    /\ PrintLogIdle
    /\ ProjectIdle
    /\ RegisterIdle
    /\ AskIdle

NextForeach ==
    \/ ExecuteCommandProject /\ UNCHANGED not_runtime_vars
    \/ ExecuteCommandReturn /\ UNCHANGED not_runtime_vars

SpecForeach == InitForeach /\ [][NextForeach]_vars

not_project_vars == <<project_remotes, git_remotes, sr, events, hist, co, pl, rt, rg, ak>>

InitProject ==
    /\ pr \in PrStarts
    /\ pr.linked => pr.path = "repo"
    /\ repo \in IF pr.path = "repo" THEN RepoStates ELSE {EmptyRepo}
    /\ rd \in IF pr.linked
              THEN {RepoData} \cup {s \in {refresh(RepoData, repo)} : s.raised = "no"}
              ELSE {EmptyRepoData}
    /\ hist = HistInit
    /\ RemotesIdle
    /\ CheckoutIdle
    /\ PrintLogIdle
    /\ RuntimeIdle
    /\ RegisterIdle
    /\ AskIdle

NextProject ==
    \/ Clone /\ UNCHANGED not_project_vars
    \/ ProjectInit /\ UNCHANGED not_project_vars
    \/ Fetch /\ UNCHANGED not_project_vars
    \/ Checkout /\ UNCHANGED not_project_vars
    \/ Merge /\ UNCHANGED not_project_vars
    \/ Push /\ UNCHANGED not_project_vars
    \/ CollectGarbage /\ UNCHANGED not_project_vars
    \/ Status /\ UNCHANGED not_project_vars

SpecProject == InitProject /\ [][NextProject]_vars

not_register_vars ==
    <<project_remotes, git_remotes, sr, events, repo, rd, hist, co, pl, rt, pr, ak>>

InitRegister ==
    /\ rg \in RgStarts
    /\ RemotesIdle
    /\ RepoDataIdle
    /\ CheckoutIdle
    /\ PrintLogIdle
    /\ RuntimeIdle
    /\ ProjectIdle
    /\ AskIdle

NextRegister ==
    \/ RegisterRepository /\ UNCHANGED not_register_vars
    \/ NewRuntime /\ UNCHANGED not_register_vars

SpecRegister == InitRegister /\ [][NextRegister]_vars

not_ask_vars ==
    <<project_remotes, git_remotes, sr, events, repo, rd, hist, co, pl, rt, pr, rg>>

InitAsk ==
    /\ ak \in AkStarts
    /\ AskAccepts(ak)
    /\ RemotesIdle
    /\ RepoDataIdle
    /\ CheckoutIdle
    /\ PrintLogIdle
    /\ RuntimeIdle
    /\ ProjectIdle
    /\ RegisterIdle

NextAsk == Ask /\ UNCHANGED not_ask_vars

SpecAsk == InitAsk /\ [][NextAsk]_vars

(***************************************************************************)
(* Claims about the RepoData snapshot                                      *)
(***************************************************************************)
\* C3: in every state of a RepoData, after construction and after any number of
\* refresh() calls over any repository, every name in branches is a key of
\* tracking_branches; right after a refresh() the value is None exactly for the
\* branches without upstream and every local branch of the repository is in
\* branches.
C3_TrackingCoversBranches ==
    /\ Range(rd.branches) \subseteq Keys(rd.tracking_branches)
    /\ hist.calls >= 1 =>
          /\ Range(repo.branches) \subseteq Range(rd.branches)
          /\ \A b \in Range(rd.branches) :
                (Lookup(rd.tracking_branches, b) = <<>>) <=> (repo.upstream[b] = <<>>)

\* a refreshed snapshot of a repository with a detached HEAD and two branches,
\* one with and one without upstream
C3_Witness ==
    /\ hist.calls >= 1
    /\ repo.head = Detached
    /\ Len(rd.branches) = 2
    /\ \E b, c \in Range(rd.branches) :
          /\ Lookup(rd.tracking_branches, b) = <<>>
          /\ Lookup(rd.tracking_branches, c) # <<>>

\* C4: a second refresh() with no change of the repository in between leaves
\* every field, key order included, as the first call left it; and the fields
\* after a refresh() that returned are those a newly constructed RepoData gets
\* from the same repository, whatever the snapshot held before.
C4_RefreshIdempotent ==
    /\ hist.calls = 2 => rd = hist.prev
    /\ (hist.calls >= 1 /\ rd.raised = "no") => rd = refresh(EmptyRepoData, repo)

\* two refreshes in a row of a repository that was changed after an earlier
\* refresh, with an active branch whose upstream remote is listed first although
\* the repository lists it second
C4_Witness ==
    /\ hist.calls = 2
    /\ hist.changes >= 1
    /\ rd.raised = "no"
    /\ rd._active_branch # NoBranch
    /\ Len(rd.remotes) = 2
    /\ rd.remotes # repo_remote_names(repo)
    /\ rd.remote_branches # <<>>

\* the five fields of a snapshot
Fields(s) ==
    <<s._active_branch, s.branches, s.tracking_branches, s.remotes, s.remote_branches>>

\* C23: refresh() never leaves the snapshot partly updated: after a refresh
\* that returned, the five fields describe the one state of the repository,
\* and after a refresh that failed they hold what they held before the call.
C23_AsStated ==
    hist.calls >= 1 =>
        IF rd.raised = "no"
        THEN Fields(rd) = Fields(refresh(EmptyRepoData, repo))
        ELSE Fields(rd) = Fields(hist.prev)

\* how many times x occurs in the sequence s
Count(s, x) == Cardinality({i \in DOMAIN s : s[i] = x})

\* the remote that branch.<name>.remote names for the branch HEAD points to, when
\* RepoData takes that branch for the active one; <<>> when there is none
RepoDefaultRemote ==
    IF repo.branches = <<>> \/ repo.head = Detached THEN <<>>
    ELSE IF repo.upstream[repo.head] = <<>> THEN <<>>
    ELSE <<repo.upstream[repo.head][1]>>

\* C27: after a refresh() that returned, the active branch, if any, is the
\* first key of branches; the default remote, if any, is the remote name of the
\* active branch's tracking branch and the first key of remotes; each remote
\* and each local branch of the repository is there exactly once; and refresh()
\* raises AssertionError exactly when the default remote name is not the name
\* of exactly one remote of the repository.
C27_RefreshInvariants ==
    hist.calls >= 1 =>
        LET default == default_remote(rd._active_branch, rd.tracking_branches)
            matching == Count(repo_remote_names(repo), IF default = <<>> THEN <<>> ELSE default[1])
        IN  /\ rd.raised \in {"no", "AssertionError"}
            /\ default = RepoDefaultRemote
            /\ rd.raised = "AssertionError" <=> (default # <<>> /\ matching # 1)
            /\ rd.raised = "no" =>
                 /\ rd._active_branch # NoBranch =>
                        rd.branches # <<>> /\ rd.branches[1] = rd._active_branch
                 /\ default # <<>> =>
                        /\ matching = 1
                        /\ rd.remotes # <<>> /\ rd.remotes[1] = default[1]
                 /\ \A n \in Range(repo_remote_names(repo)) : Count(rd.remotes, n) = 1
                 /\ \A b \in Range(repo.branches) : Count(rd.branches, b) = 1
                 /\ \A i \in DOMAIN rd.remotes : Count(rd.remotes, rd.remotes[i]) = 1
                 /\ \A i \in DOMAIN rd.branches : Count(rd.branches, rd.branches[i]) = 1

\* a refresh() that returned and moved both the active branch and the default
\* remote in front of the names that git lists first
C27_Witness ==
    /\ hist.calls >= 1
    /\ rd.raised = "no"
    /\ Len(rd.branches) = 2 /\ rd.branches[1] = rd._active_branch
    /\ rd.branches[1] # repo.branches[1]
    /\ Len(rd.remotes) = 2 /\ <<rd.remotes[1]>> = RepoDefaultRemote
    /\ rd.remotes[1] # repo.remotes[1].name

(***************************************************************************)
(* Claims about the remote reconciliation                                  *)
(***************************************************************************)
NormalUrls == {replace_backslash(u) : u \in Urls}

EventsOf(ev, kind) == {i \in DOMAIN events : events[i][1] = ev /\ events[i][2] = kind}

NReports(finding, name) ==
    Cardinality({i \in EventsOf("report", finding) : events[i][3] = name})

Offered(cmd) == \E i \in DOMAIN events : events[i] = Offer(cmd)

Ran(cmd) == \E i \in DOMAIN events : events[i] = Call(cmd)

\* a finished run over configured {a: u1, b: u2} and actual {a: u2}
C1Case(a, b, u1, u2) ==
    /\ a # b /\ u1 # u2
    /\ sr.pc = "done"
    /\ sr.remotes_in_config = [k \in {a, b} |-> IF k = a THEN u1 ELSE u2]
    /\ sr.remotes = [k \in {a} |-> u2]

\* C1 as stated: configured {a: U1, b: U2} against actual {a: U2} yields exactly
\* one 'url changed' finding for a, with the offer to set a's URL to U1, and a
\* 'missing remote' finding for b with the offer to add b; a is not reported as
\* renamed, extra or missing.
C1_AsStated ==
    \A a, b \in RemoteNames, u1, u2 \in NormalUrls :
        C1Case(a, b, u1, u2) =>
            /\ NReports("url changed", a) = 1
            /\ Offered(<<"set-url", a, "", u1>>)
            /\ NReports("missing remote", b) = 1
            /\ Offered(add_command(b, project_remotes))
            /\ NReports("renamed remote", a) = 0
            /\ NReports("extra remote", a) = 0
            /\ NReports("missing remote", a) = 0

\* C1, amended: configured {a: U1, b: U2} against actual {a: U2} yields exactly
\* one 'renamed remote' finding, for a, with the offer to rename a to b, and no
\* 'url changed' or 'extra remote' finding; a is then reported once as 'missing
\* remote' and 'misconfigured remote' without any offer; b is reported as
\* 'missing remote', with the offer to add it, exactly when the rename was not
\* accepted.
C1_RenameNotUrlChange ==
    \A a, b \in RemoteNames, u1, u2 \in NormalUrls :
        C1Case(a, b, u1, u2) =>
            /\ Cardinality(EventsOf("report", "renamed remote")) = 1
            /\ NReports("renamed remote", a) = 1
            /\ \A i \in EventsOf("ask", "rename") : events[i] = Offer(<<"rename", a, b, <<>> >>)
            /\ Cardinality(EventsOf("ask", "rename")) = 1
            /\ EventsOf("report", "url changed") = {}
            /\ EventsOf("report", "extra remote") = {}
            /\ EventsOf("ask", "set-url") = {} /\ EventsOf("ask", "remove") = {}
            /\ NReports("missing remote", a) = 1
            /\ NReports("misconfigured remote", a) = 1
            /\ ~Offered(add_command(a, project_remotes))
            /\ IF Ran(<<"rename", a, b, <<>> >>)
               THEN NReports("missing remote", b) = 0 /\ EventsOf("ask", "add") = {}
               ELSE /\ NReports("missing remote", b) = 1
                    /\ Offered(add_command(b, project_remotes))
                    /\ Cardinality(EventsOf("ask", "add")) = 1

\* a finished run of the C1 case in which the rename was accepted
C1_Witness ==
    \E a, b \in RemoteNames, u1, u2 \in NormalUrls :
        /\ C1Case(a, b, u1, u2)
        /\ Ran(<<"rename", a, b, <<>> >>)
        /\ git_remotes = [k \in {b} |-> u2]

\* a finished run over configured {origin: u} and actual {mirror: u}
C2Case(origin, mirror, u) ==
    /\ origin # mirror
    /\ sr.pc = "done"
    /\ sr.remotes_in_config = [k \in {origin} |-> u]
    /\ sr.remotes = [k \in {mirror} |-> u]

\* C2 as stated: configured {origin: U1} against actual {mirror: U1} yields
\* exactly one 'renamed remote' finding, the rename offered goes from mirror to
\* origin, and no 'extra remote' or 'missing remote' finding is reported,
\* whichever answer the user gives.
C2_AsStated ==
    \A origin, mirror \in RemoteNames, u \in NormalUrls :
        C2Case(origin, mirror, u) =>
            /\ Cardinality(EventsOf("report", "renamed remote")) = 1
            /\ \A i \in EventsOf("ask", "rename") :
                  events[i] = Offer(<<"rename", mirror, origin, <<>> >>)
            /\ Cardinality(EventsOf("ask", "rename")) = 1
            /\ EventsOf("report", "extra remote") = {}
            /\ EventsOf("report", "missing remote") = {}

\* C2, amended: configured {origin: U1} against actual {mirror: U1} yields
\* exactly one 'renamed remote' finding, for mirror, the rename offered goes
\* from mirror to origin, and no 'extra remote' finding is reported; no 'missing
\* remote' finding is reported when the rename is accepted, and when it is not
\* accepted origin is reported once as 'missing remote' with the offer to add it.
C2_RenameOffered ==
    \A origin, mirror \in RemoteNames, u \in NormalUrls :
        C2Case(origin, mirror, u) =>
            /\ Cardinality(EventsOf("report", "renamed remote")) = 1
            /\ NReports("renamed remote", mirror) = 1
            /\ \A i \in EventsOf("ask", "rename") :
                  events[i] = Offer(<<"rename", mirror, origin, <<>> >>)
            /\ Cardinality(EventsOf("ask", "rename")) = 1
            /\ EventsOf("report", "extra remote") = {}
            /\ EventsOf("report", "url changed") = {}
            /\ IF Ran(<<"rename", mirror, origin, <<>> >>)
               THEN /\ EventsOf("report", "missing remote") = {}
                    /\ EventsOf("ask", "add") = {}
                    /\ DOMAIN git_remotes = {origin}
               ELSE /\ Cardinality(EventsOf("report", "missing remote")) = 1
                    /\ NReports("missing remote", origin) = 1
                    /\ Offered(add_command(origin, project_remotes))

\* a finished run of the C2 case in which the rename was declined and the
\* missing remote was then reported
C2_Witness ==
    \E origin, mirror \in RemoteNames, u \in NormalUrls :
        /\ C2Case(origin, mirror, u)
        /\ ~Ran(<<"rename", mirror, origin, <<>> >>)
        /\ NReports("missing remote", origin) = 1

\* the event is a finding or an offer of the loop over the actual remotes
OfFirstLoop(e) ==
    \/ e[1] = "report" /\ e[2] \in {"renamed remote", "url changed", "extra remote"}
    \/ e[1] \in {"ask", "git"} /\ e[2] \in {"rename", "set-url", "remove"}

\* the configured name that an accepted rename or URL change settled, or ""
Settled(e) ==
    IF e[1] = "git" /\ e[2] = "rename" THEN e[4]
    ELSE IF e[1] = "git" /\ e[2] = "set-url" THEN e[3]
    ELSE ""

\* C25: within one run of _status_remotes every renamed, URL-changed and extra
\* finding comes before the first 'missing remote' report, and once a rename to
\* the configured name N or a URL change of N was accepted, N is not reported
\* as missing nor offered for adding later in that run.
C25_RenamesBeforeMissing ==
    \A i, j \in DOMAIN events :
        i < j =>
            /\ events[i] = Report("missing remote", events[i][3]) => ~OfFirstLoop(events[j])
            /\ Settled(events[i]) # "" =>
                   /\ events[j] # Report("missing remote", Settled(events[i]))
                   /\ ~(events[j][1] = "ask" /\ events[j][2] = "add"
                        /\ events[j][3] = Settled(events[i]))

\* a rename was accepted and another configured remote was then reported as
\* missing
C25_Witness ==
    \E i, j \in DOMAIN events :
        /\ i < j
        /\ events[i][1] = "git" /\ events[i][2] = "rename"
        /\ events[j][1] = "report" /\ events[j][2] = "missing remote"
        /\ sr.pc = "done"

\* the events that are git remote commands
GitEvents == {i \in DOMAIN events : events[i][1] = "git"}

\* the event at i, a git remote command, comes directly after the answer y to
\* the offer of that command
AfterYes(i) ==
    /\ i > 2
    /\ events[i - 2] = <<"ask", events[i][2], events[i][3], events[i][4], events[i][5]>>
    /\ events[i - 1] = <<"answer", "y", events[i][3], events[i][4], events[i][5]>>

\* C26: _status_remotes runs a git remote command only directly after the
\* answer y to the offer of that command; the remotes of the repository change
\* only by such a command, so they stay as they were when every offer is
\* declined or nothing differs; a 'misconfigured remote' finding is followed by
\* no offer and no command; the configured remotes are never modified.
C26_OnlyAfterYes ==
    /\ [](/\ \A i \in GitEvents : AfterYes(i)
          /\ (sr.pc = "done" /\ sr.extra_remotes = <<>> /\ sr.missing_remotes = <<>>
              /\ sr.i = 1) => events = <<>>
          /\ \A i \in DOMAIN events :
                 (events[i][1] = "report" /\ events[i][2] = "misconfigured remote"
                  /\ i < Len(events)) => events[i + 1][1] = "report")
    /\ [][/\ project_remotes' = project_remotes
          /\ git_remotes' # git_remotes =>
                 /\ Len(events') > Len(events)
                 /\ events'[Len(events')][1] = "git"]_vars

\* a finished run in which a remote was found misconfigured, two offers were
\* declined and no command was run
C26_Witness ==
    /\ sr.pc = "done"
    /\ GitEvents = {}
    /\ Cardinality(EventsOf("answer", "n")) = 2
    /\ EventsOf("report", "misconfigured remote") # {}
    /\ normalized(git_remotes) = sr.remotes

\* the command of the last event, a git remote command
LastCommand == LET e == events[Len(events)] IN <<e[2], e[3], e[4], e[5]>>

\* C28 (as stated; violated): every git remote command that _status_remotes
\* issues finds its precondition satisfied: the source of a rename exists and
\* its target does not, the remote of a set-url or remove exists, the name of
\* an add does not exist.  A command that git rejects leaves the repository as
\* it was, so the precondition is read off the repository after the call.
C28_AsStated ==
    (events # <<>> /\ events[Len(events)][1] = "git" /\ sr.pc = "GitCommandError")
        => git_remote_ok(git_remotes, LastCommand)

\* --- _status_remotes as a function of its inputs: the configured and actual
\* remotes, the iteration orders eo of extra_remotes and mo of missing_remotes,
\* and the set yes of the commands whose offer is answered y (every other
\* offer is answered n) ---
RunStart(actual, mo) ==
    [git |-> actual, missing |-> mo, findings |-> {<<"different remotes", "">>},
     commands |-> {}, raised |-> FALSE]

\* one offer: on y the command is issued, and it raises when git rejects it
run_offer(st, cmd, yes) ==
    IF cmd \notin yes THEN st
    ELSE IF git_remote_ok(st.git, cmd)
    THEN [st EXCEPT !.git = git_remote(st.git, cmd), !.commands = st.commands \cup {cmd}]
    ELSE [st EXCEPT !.commands = st.commands \cup {cmd}, !.raised = TRUE]

\* lines 502-524: the loop over extra_remotes, from its i-th pair on
RECURSIVE run_extra(_, _, _, _, _)
run_extra(st, eo, i, c, yes) ==
    IF st.raised \/ i > Len(eo) THEN st
    ELSE LET name == eo[i][1]
             url == eo[i][2]
             class == classify(name, url, st.missing, c.extra_remote_names)
             found(f) == [st EXCEPT !.findings = st.findings \cup f]
         IN  CASE class = "renamed remote" ->
                  LET new_name == new_name_for(url, st.missing)
                      cmd == rename_command(name, new_name)
                      o == run_offer(found({<<"renamed remote", name>>}), cmd, yes)
                  IN  run_extra(IF cmd \in yes /\ ~o.raised
                                THEN [o EXCEPT !.missing = Del(st.missing, new_name)] ELSE o,
                                eo, i + 1, c, yes)
               [] class = "url changed" ->
                  LET cmd == set_url_command(name, c.remotes_in_config)
                      o == run_offer(found({<<"url changed", name>>}), cmd, yes)
                  IN  run_extra(IF cmd \in yes /\ ~o.raised
                                THEN [o EXCEPT !.missing = Del(st.missing, name)] ELSE o,
                                eo, i + 1, c, yes)
               [] class = "misconfigured remote" ->
                  run_extra(found({<<"extra remote", name>>, <<"misconfigured remote", name>>}),
                            eo, i + 1, c, yes)
               [] class = "extra remote" ->
                  run_extra(run_offer(found({<<"extra remote", name>>}),
                                      remove_command(name, c.remotes), yes),
                            eo, i + 1, c, yes)

\* lines 526-533: the loop over what is left of missing_remotes, from its i-th pair on
RECURSIVE run_missing(_, _, _, _)
run_missing(st, i, c, yes) ==
    IF st.raised \/ i > Len(st.missing) THEN st
    ELSE LET name == st.missing[i][1]
             found(f) == [st EXCEPT !.findings = st.findings \cup f]
         IN  IF name \notin c.missing_remote_names
             THEN run_missing(found({<<"missing remote", name>>, <<"misconfigured remote", name>>}),
                              i + 1, c, yes)
             ELSE run_missing(run_offer(found({<<"missing remote", name>>}),
                                        add_command(name, c.self_remotes), yes),
                              i + 1, c, yes)

\* the findings reported and the commands issued by one run
RunOutcome(c, eo, mo, yes) ==
    LET st == run_missing(run_extra(RunStart(c.remotes, mo), eo, 1, c, yes), 1, c, yes)
    IN  [findings |-> st.findings, commands |-> st.commands, raised |-> st.raised]

\* the inputs of the run that is under way or over
RunInputs ==
    [remotes_in_config |-> sr.remotes_in_config, remotes |-> sr.remotes,
     extra_remote_names |-> sr.extra_remote_names,
     missing_remote_names |-> sr.missing_remote_names,
     self_remotes |-> project_remotes]

\* the commands _status_remotes can come to offer on these inputs
PossibleCommands ==
    LET c == RunInputs
    IN  {rename_command(n, m) : n \in DOMAIN c.remotes, m \in DOMAIN c.remotes_in_config}
        \cup {set_url_command(n, c.remotes_in_config) :
                 n \in DOMAIN c.remotes \cap DOMAIN c.remotes_in_config}
        \cup {remove_command(n, c.remotes) : n \in DOMAIN c.remotes}
        \cup {add_command(n, project_remotes) : n \in DOMAIN project_remotes}

\* what the events of the run say: the findings, the commands, the offers
\* answered y
Reported == {<<events[i][2], events[i][3]>> : i \in {j \in DOMAIN events : events[j][1] = "report"}}

Issued == {<<events[i][2], events[i][3], events[i][4], events[i][5]>> : i \in GitEvents}

AnsweredYes ==
    {<<events[i - 1][2], events[i][3], events[i][4], events[i][5]>> :
        i \in {j \in DOMAIN events : events[j][1] = "answer" /\ events[j][2] = "y"}}

\* RunOutcome computes what the actions do: a run that ended without
\* KeyboardInterrupt reported and issued what RunOutcome gives for its iteration
\* orders and its answers
RunOutcomeAgrees ==
    sr.pc \in {"done", "GitCommandError"} /\ events # <<>> =>
        \E mo \in Orderings(Items(sr.remotes_in_config) \ Items(sr.remotes)) :
            LET o == RunOutcome(RunInputs, sr.extra_remotes, mo, AnsweredYes)
            IN  /\ o.findings = Reported
                /\ o.commands = Issued
                /\ o.raised = (sr.pc = "GitCommandError")

\* C29 (as stated; violated): for fixed configured remotes, fixed actual
\* remotes and a fixed answer to each offer, the findings reported and the
\* commands issued are the same for every iteration order of extra_remotes and
\* missing_remotes.
C29_AsStated ==
    (sr.pc = "extra" /\ sr.i = 1) =>
        \A yes \in SUBSET PossibleCommands :
            \A eo \in Orderings(Range(sr.extra_remotes)), mo \in Orderings(Range(sr.missing_remotes)) :
                RunOutcome(RunInputs, eo, mo, yes)
                    = RunOutcome(RunInputs, sr.extra_remotes, sr.missing_remotes, yes)

\* the same with the runs left out in which git rejects a command
C29_WithoutRejections ==
    (sr.pc = "extra" /\ sr.i = 1) =>
        \A yes \in SUBSET PossibleCommands :
            \A eo \in Orderings(Range(sr.extra_remotes)), mo \in Orderings(Range(sr.missing_remotes)) :
                LET a == RunOutcome(RunInputs, eo, mo, yes)
                    b == RunOutcome(RunInputs, sr.extra_remotes, sr.missing_remotes, yes)
                IN  (~a.raised /\ ~b.raised) => a = b

\* the repository has the configured remotes and the run reported nothing
Converged ==
    /\ sr.pc = "done"
    /\ events = <<>>
    /\ Items(normalized(git_remotes)) = Items(normalized(project_remotes))

\* C30 (as stated; violated): when status is run repeatedly and every offer is
\* accepted, some run finds the actual (name, URL) pairs equal to the
\* configured ones and reports nothing.
C30_AsStated == <>Converged

\* the same for the behaviours in which git rejects no command
C30_UnlessRejected == <>(Converged \/ sr.pc = "GitCommandError")

(***************************************************************************)
(* Claims about the checkout selector                                      *)
(***************************************************************************)
\* the (remote, name) pairs that some local branch of the snapshot tracks
TrackingTargets == {<<tb[1], tb[2]>> : tb \in Values(rd.tracking_branches) \ {<<>>}}

\* the remote branches of the snapshot that are no tracking target and are not
\* named HEAD or FETCH_HEAD
Qualifying ==
    {k \in Keys(rd.remote_branches) : k \notin TrackingTargets /\ k[2] \notin {HEAD, FETCH_HEAD}}

\* the menu was built: the prompt is open, or an answer was given
MenuBuilt == co.pc = "ask" \/ (co.pc = "done" /\ co.revisions # <<>>)

\* the keys of the menu are the first k selector keys in order, none is 'n',
\* and the entries are, in order, the local branches, the tags and k more
KeysInOrder ==
    /\ \A i \in DOMAIN co.revisions : co.revisions[i][1] = keys[i] /\ keys[i] # "n"
    /\ \A i, j \in DOMAIN co.revisions : i # j => co.revisions[i][1] # co.revisions[j][1]
    /\ \A i \in DOMAIN rd.branches : co.revisions[i][2].target = Str(rd.branches[i])
    /\ \A i \in DOMAIN repo.tags :
          co.revisions[Len(rd.branches) + i][2].target = TagReference(repo.tags[i])

\* C5: _prepare_checkout_list raises RuntimeError exactly when the local
\* branches, the qualifying remote branches and the tags together are more than
\* the 89 selector keys; with 89 or fewer every candidate has its own entry, the
\* keys are the first k selector keys in order and none of them is 'n'.
C5_AsStated ==
    LET n == Len(rd.branches) + Cardinality(Qualifying) + Len(repo.tags)
    IN  /\ (co.raised = "RuntimeError") => n > Len(keys)
        /\ (co.pc = "ask" /\ rd._active_branch # NoBranch) =>
              /\ n <= Len(keys)
              /\ Len(co.revisions) = n
              /\ KeysInOrder

\* what holds of the code: the count that decides is the one the code takes,
\* which includes every reference of every remote
C5_CodeCount ==
    LET n == Len(rd.branches) + Len(rd.remote_branches) + Len(repo.tags)
    IN  /\ (co.raised = "RuntimeError") => n > Len(keys)
        /\ (co.pc = "ask" /\ rd._active_branch # NoBranch) =>
              /\ n <= Len(keys)
              /\ Len(co.revisions) = n
              /\ KeysInOrder
        /\ (co.pc = "ask" /\ rd._active_branch = NoBranch) =>
              /\ n <= Len(keys)
              /\ Len(co.revisions) = n + 1
              /\ co.revisions[n + 1][1] = "n"
              /\ \A i \in 1..n : co.revisions[i][1] = keys[i]

\* the entries of the menu that carry the 'no change' annotation
NoChange == {i \in DOMAIN co.revisions : "no change" \in Range(co.revisions[i][2].comment)}

\* C6: whenever the snapshot has an active branch, exactly one entry of the
\* menu carries 'no change', its target is the active branch, and it is the
\* only entry whose selection ends checkout without a git checkout.
C6_OneNoChange ==
    (MenuBuilt /\ rd._active_branch # NoBranch) =>
        /\ Cardinality(NoChange) = 1
        /\ \A i \in NoChange : co.revisions[i][2].target = Str(rd._active_branch)
        /\ \A i \in DOMAIN co.revisions :
              (co.pc = "done" /\ co.answer = co.revisions[i][1]) =>
                  (co.invoked <=> i \notin NoChange)

\* the active branch is m, there is a tag m too, and the user picked each of
\* the two entries in turn: this is the state after picking the tag
C6_Witness ==
    /\ co.pc = "done"
    /\ rd._active_branch = <<"m">>
    /\ co.answer = "2"
    /\ co.revisions[2][2].target = TagReference(<<"m">>)
    /\ co.revisions[1][2].comment = <<"no change">>
    /\ co.invoked
    /\ repo.head = <<"m">>

\* C7: the menu never has an entry for a remote branch that some local branch
\* tracks, nor for a remote reference named HEAD or FETCH_HEAD; every other
\* remote branch of the snapshot appears exactly once, labelled
\* '<remote>/<name>' if a local branch called name exists and 'name' otherwise.
C7_AsStated ==
    MenuBuilt =>
        /\ \A i \in DOMAIN co.revisions :
              co.revisions[i][2].based # <<>> => co.revisions[i][2].based \in Qualifying
        /\ \A k \in Qualifying :
              /\ Cardinality({i \in DOMAIN co.revisions : co.revisions[i][2].based = k}) = 1
              /\ \A i \in DOMAIN co.revisions :
                    co.revisions[i][2].based = k =>
                        co.revisions[i][2].target =
                            IF k[2] \in Range(rd.branches)
                            THEN Str(ref_name(k[1], k[2])) ELSE Str(k[2])

\* C22: every keystroke that the checkout prompt accepts is n or a key that
\* _prepare_checkout_list gave an entry, with an active branch and without
\* one, so that resolving an accepted answer to its target never fails.
C22_AsStated ==
    /\ co.pc = "ask" =>
           \A i \in DOMAIN slice_to(keys, Len(co.revisions)) :
               keys[i] \in Keys(co.revisions)
    /\ co.raised # "KeyError"

(***************************************************************************)
(* Claims about the log printing                                           *)
(***************************************************************************)
\* the commits of the printed lines, in order, and the skipped counts
PrintedCommits == SelectSeq(pl.printed, LAMBDA x : x.kind = "line")

PrintedSkips == SelectSeq(pl.printed, LAMBDA x : x.kind = "skipped")

\* C8: _print_log with the default head and tail of 10 on a log of n lines
\* prints, if n > 21, the first 10 lines, one line '... skipped n-20 commits'
\* and the last 10 lines, and if n <= 21 all n lines and no elision line; the
\* printed lines and the skipped count add up to n and no line is printed twice.
C8_PrintLog ==
    (pl.pc = "done" /\ pl.head_count = head_count /\ pl.tail_count = tail_count) =>
        LET n == Len(pl.ref_log)
            body == SelectSeq(pl.printed, LAMBDA x : x.kind # "header")
            skipped == IF PrintedSkips = <<>> THEN 0 ELSE PrintedSkips[1].n
        IN  /\ n > 21 =>
                  body = [i \in 1..10 |-> Line(pl.ref_log[i])]
                         \o <<Skipped(n - 20)>>
                         \o [i \in 1..10 |-> Line(pl.ref_log[n - 10 + i])]
            /\ n <= 21 => body = [i \in 1..n |-> Line(pl.ref_log[i])]
            /\ Len(PrintedSkips) <= 1
            /\ Len(PrintedCommits) + skipped = n
            /\ \A i, j \in DOMAIN PrintedCommits :
                  i # j => PrintedCommits[i].n # PrintedCommits[j].n

\* a log of 22 lines printed with the defaults: 10 lines, 2 skipped, 10 lines
C8_Witness ==
    /\ pl.pc = "done"
    /\ pl.head_count = head_count /\ pl.tail_count = tail_count
    /\ Len(pl.ref_log) = 22
    /\ Len(PrintedCommits) = 20
    /\ PrintedSkips = <<Skipped(2)>>

(***************************************************************************)
(* Claims about the runtime                                                *)
(***************************************************************************)
\* C9: in batch mode (--batch, or no override and interactive = false in the
\* machine configuration) every prompt issued through ask() during a command
\* returns its declared default without reading any keystroke.
C9_AsStated ==
    interactive(rt) = False =>
        \A k \in DOMAIN rt.prompts :
            /\ rt.prompts[k].kind = "return"
            /\ rt.prompts[k].value = rt.prompts[k].default
            /\ rt.prompts[k].nread = 0

\* C10 as stated: every per-project fault is logged and the command is still
\* executed for the projects after it; the batch is not aborted.
C10_AsStated ==
    \A k \in DOMAIN rt.executed :
        rt.executed[k] \in {"ValueError", "RuntimeError"} =>
            /\ k \in Range(rt.logged)
            /\ rt.pc # "raised"
            /\ rt.pc = "returned" => Len(rt.executed) = Len(rt.filtered_projects)

\* C10: a fault of project pi that is raised as RuntimeError is logged and the
\* command is still executed for the projects after pi; a fault that is raised
\* as ValueError is neither caught nor logged: it leaves execute_git_command
\* and no project after pi is processed.
C10_OnlyRuntimeErrorLogged ==
    \A k \in DOMAIN rt.executed :
        /\ rt.executed[k] = "RuntimeError" =>
              /\ k \in Range(rt.logged)
              /\ rt.raised # "RuntimeError"
              /\ rt.pc = "returned" => Len(rt.executed) = Len(rt.filtered_projects)
        /\ rt.executed[k] = "ValueError" =>
              /\ k \notin Range(rt.logged)
              /\ rt.pc = "raised" /\ rt.raised = "ValueError"
              /\ Len(rt.executed) = k

\* clone over two projects ended with the ValueError of the first, a directory
\* that is no repository: nothing was logged and the second was not processed
C10_Witness ==
    /\ rt.pc = "raised"
    /\ rt.command = "clone"
    /\ Len(rt.filtered_projects) = 2
    /\ rt.filtered_projects[1].path = "dir"
    /\ rt.executed = <<"ValueError">>
    /\ rt.logged = <<>>

\* checkout over two projects returned: the first had too many candidates and
\* was logged, the second was processed
RuntimeErrorLogged ==
    /\ rt.pc = "returned"
    /\ rt.command = "checkout"
    /\ rt.executed = <<"RuntimeError", "no">>
    /\ rt.logged = <<1>>

\* C11: the merge command, or push with all_branches, run through
\* Runtime.execute on an existing project surfaces NotImplementedError to the
\* caller: it leaves execute_git_command and is not logged and swallowed.
C11_AsStated ==
    \A k \in DOMAIN rt.executed :
        rt.executed[k] = "NotImplementedError" =>
            /\ k \notin Range(rt.logged)
            /\ rt.pc = "raised"
            /\ rt.raised = "NotImplementedError"


\* C19: a KeyboardInterrupt raised by a prompt while execute_git_command
\* processes a project is not caught there: it reaches the caller of execute
\* and no project after that one is processed.
C19_InterruptAborts ==
    \A k \in DOMAIN rt.executed :
        rt.executed[k] = "KeyboardInterrupt" =>
            /\ k = Len(rt.executed)
            /\ k \notin Range(rt.logged)
            /\ rt.pc = "raised"
            /\ rt.raised = "KeyboardInterrupt"
            /\ ~ENABLED ExecuteProject

\* the prompt of the first of two projects was interrupted
C19_Witness ==
    /\ Len(rt.filtered_projects) > 1
    /\ rt.executed = <<"KeyboardInterrupt">>
    /\ rt.prompts # <<>>
    /\ rt.prompts[Len(rt.prompts)].kind = "KeyboardInterrupt"

(***************************************************************************)
(* Claims about the Project methods                                        *)
(***************************************************************************)
\* the push that a finished Project.push() of the active branch ran
PushedFresh ==
    /\ pr.pc = "done"
    /\ pr.method = "push"
    /\ ~pr.option
    /\ ~pr.called_linked
    /\ pr.called_on = "repo"

\* C12: push() on a newly constructed Project whose repository has an active
\* branch B invokes one push, to the remote of B's tracking branch with the
\* refspec B:t, or of B to the first remote when B tracks nothing, and warns
\* of 'no active branch' only when the repository has none.
C12_AsStated ==
    (PushedFresh /\ refresh_active_branch(repo) # NoBranch) =>
        LET B == refresh_active_branch(repo)
            up == repo.upstream[B]
        IN  /\ "no active branch" \notin Range(pr.warned)
            /\ up # <<>> => pr.git = <<<<"push", up[1], B \o <<":">> \o up[2]>>>>
            /\ (up = <<>> /\ repo.remotes # <<>>) =>
                   pr.git = <<<<"push", repo.remotes[1].name, B>>>>


\* a finished Project.fetch() on a repository whose refresh succeeded
Fetched ==
    /\ pr.pc = "done"
    /\ pr.method = "fetch"
    /\ pr.called_on = "repo"
    /\ rd.raised = "no"

\* the remotes that the git fetch commands of the method named, in order
FetchedRemotes == [i \in DOMAIN pr.git |-> pr.git[i][2]]

\* C13: fetch without all_remotes fetches the one remote of the active
\* branch's tracking branch when there is one, and every remote of the
\* snapshot when there is no active branch or no tracking branch; with
\* all_remotes it fetches every remote; selecting the remotes never raises.
C13_AsStated ==
    Fetched =>
        LET active == rd._active_branch
            tracking == IF active = NoBranch THEN <<>>
                        ELSE Lookup(rd.tracking_branches, active)
            selected == IF ~pr.option /\ tracking # <<>> THEN <<tracking[1]>>
                        ELSE rd.remotes
        IN  /\ pr.raised # "no" => pr.git # <<>>
            /\ pr.raised = "no" => FetchedRemotes = selected


\* clone() or init() ended on a path that was a directory without a .git entry
ClonedOrInitOnDir ==
    /\ pr.pc = "done"
    /\ pr.method \in {"clone", "init"}
    /\ pr.called_on \in {"empty", "files"}

C17_AsStated ==
    (/\ pr.pc = "done"
     /\ pr.method = "clone"
     /\ pr.called_on = "empty"
     /\ pr.remotes # <<>>
     /\ \A k \in DOMAIN pr.prompts :
            pr.prompts[k].kind = "return" /\ pr.prompts[k].value = "y"
     /\ ~(pr.git # <<>> /\ pr.raised = "ValueError"))
    => pr.path = "repo"

\* one of the six methods ended on a path that was not an existing directory
RanOnAbsent ==
    /\ pr.pc # "ready"
    /\ pr.method \in {"fetch", "checkout", "merge", "push", "gc", "status"}
    /\ pr.called_on = "absent"

\* C20: fetch, checkout, merge, push, collect_garbage and status on a path that
\* is not an existing directory return without raising, without prompting,
\* without linking a repository and without creating the directory.
C20_SkipNonExisting ==
    RanOnAbsent =>
        /\ pr.pc = "done"
        /\ pr.raised = "no"
        /\ pr.prompts = <<>>
        /\ pr.git = <<>>
        /\ ~pr.linked
        /\ rd = EmptyRepoData
        /\ pr.path = "absent"

\* merge returned on a missing path instead of raising NotImplementedError
C20_Witness ==
    /\ RanOnAbsent
    /\ pr.method = "merge"
    /\ pr.raised = "no"

\* status() got past git status and refresh(), so that _status_branch ran on
\* the refreshed snapshot
StatusBranchRan ==
    /\ pr.pc # "ready"
    /\ pr.method = "status"
    /\ pr.called_on = "repo"
    /\ pr.raised # "ValueError"
    /\ rd.raised = "no"

\* C24: _status_branch never raises on a refreshed snapshot: without an active
\* branch and without a tracking branch it warns and returns, and with a
\* tracking branch it goes on to compare the two ranges of commits.
C24_AsStated ==
    StatusBranchRan =>
        /\ pr.raised = "no"
        /\ pr.pc = "_status_remotes"
        /\ rd._active_branch = NoBranch => pr.warned = <<"not on any branch">>
        /\ (rd._active_branch # NoBranch
            /\ Lookup(rd.tracking_branches, rd._active_branch) = <<>>) =>
               pr.warned = <<"current branch has no tracking branch">>

(***************************************************************************)
(* Claims about register_repository                                        *)
(***************************************************************************)
\* the name of the directory that the path of the last call names
NamedDir ==
    IF rg.path.parts = <<CurDir>> THEN path_name(rg.cwd) ELSE path_name(rg.path.parts)

\* the last call of register_repository named a directory whose name is, but
\* for the case of letters, the name of a project of the loaded configuration
RegisteredExisting ==
    /\ rg.name # <<>>
    /\ \E k \in DOMAIN rg.loaded : names_equal(rg.loaded[k], NamedDir)

\* C14: register_repository of a directory whose name equals, ignoring case,
\* the name of a project of the loaded configuration raises ValueError and
\* leaves repos_config and the repositories file as they were, whichever of
\* '.', the absolute path or '../name' named the directory.
C14_RegisterExisting ==
    RegisteredExisting =>
        /\ rg.raised = "ValueError"
        /\ rg.repos = rg.prev_repos
        /\ rg.file = rg.prev_file

\* the current directory, named as '.', ran into an existing project whose name
\* differs from its name in case
C14_Witness ==
    /\ RegisteredExisting
    /\ rg.raised = "ValueError"
    /\ NamedDir \notin Range(rg.loaded)
    /\ rg.path.parts = <<CurDir>>

\* C15: after any calls of register_repository, also several on one Runtime,
\* no two entries of repos_config['repos'] have names equal ignoring case.
C15_AsStated ==
    \A i, j \in DOMAIN rg.repos :
        i # j => ~names_equal(rg.repos[i].name, rg.repos[j].name)


(***************************************************************************)
(* Claims about ask                                                        *)
(***************************************************************************)
\* the answers the caller declared
Declared == IF ak.answers = <<>> THEN <<"y", "n">> ELSE ak.answers

\* no two declared answers differ only by case
NoCaseTwins ==
    \A i, j \in DOMAIN Declared : i # j => lower(Declared[i]) # lower(Declared[j])

\* a letter as the prompt compares it
Folded(c) == IF NoCaseTwins THEN lower(c) ELSE c

\* the alphabet of the prompt
Alphabet == {Folded(Declared[i]) : i \in DOMAIN Declared}

\* the answer that Enter stands for
DeclaredDefault ==
    Folded(IF ak.default = None THEN Declared[Len(Declared)] ELSE ak.default)

\* the keystroke ends the prompt: Ctrl-C, Enter or a letter of the alphabet
Decisive(c) == c \in _INTERRUPTS \cup _NEWLINES \/ Folded(c) \in Alphabet

\* the positions of the keystrokes that end the prompt
DecisiveAt == {i \in DOMAIN ak.keystrokes : Decisive(ak.keystrokes[i])}

FirstDecisive == CHOOSE i \in DecisiveAt : \A j \in DecisiveAt : i <= j

\* C18: ask returns only a member of the declared answers, lower-cased when no
\* two answers differ only by case; a keystroke outside the alphabet is
\* rejected and the next one is read; Enter yields the declared default, the
\* last answer when none is declared; Ctrl-C raises KeyboardInterrupt; with
\* letters in both cases in the alphabet the match is case-sensitive.
C18_AskContract ==
    ak.pc = "done" =>
        LET r == ak.result
        IN  /\ r.kind = "return" => r.value \in Alphabet
            /\ ak.autoanswer = None =>
                  IF DecisiveAt = {}
                  THEN r.kind = "blocked" /\ r.nread = Len(ak.keystrokes)
                  ELSE LET c == ak.keystrokes[FirstDecisive]
                       IN  /\ r.nread = FirstDecisive
                           /\ IF c \in _INTERRUPTS THEN r.kind = "KeyboardInterrupt"
                              ELSE /\ r.kind = "return"
                                   /\ r.value = IF c \in _NEWLINES THEN DeclaredDefault
                                                ELSE Folded(c)

\* with n and N both declared, q was rejected and N was returned as N
C18_Witness ==
    /\ ak.pc = "done"
    /\ ak.answers = <<"N", "n">>
    /\ ak.autoanswer = None
    /\ ak.keystrokes = <<"q", "N">>
    /\ ak.result = [kind |-> "return", value |-> "N", nread |-> 2]

(***************************************************************************)
(* Claims about execute_command                                            *)
(***************************************************************************)
\* the projects whose command failed or timed out, in the order of the loop
Failed(k) ==
    SelectSeq([i \in 1..k |-> i],
              LAMBDA i : rt.executed[i] \in {"TimeoutExpired", "CalledProcessError"})

\* C21: execute_command runs the command once, in configuration order, in
\* every filtered project whose path is an existing directory; a timeout or a
\* non-zero exit is logged and ends only that project's command, the later
\* projects are still processed; projects without a directory are skipped.
C21_ForeachAll ==
    /\ rt.pc # "raised"
    /\ Len(rt.executed) = rt.i - 1
    /\ rt.logged = Failed(Len(rt.executed))
    /\ \A k \in DOMAIN rt.executed :
           rt.executed[k] = "skipped" <=> rt.filtered_projects[k].path = "absent"
    /\ rt.pc = "returned" => Len(rt.executed) = Len(rt.filtered_projects)

\* the command timed out in the first project and ran in the second, past a
\* project that has no directory
C21_Witness ==
    /\ rt.pc = "returned"
    /\ rt.command = "foreach"
    /\ Len(rt.executed) > 1
    /\ rt.executed[1] = "TimeoutExpired"
    /\ rt.executed[Len(rt.executed)] = "no"
    /\ rt.logged = <<1>>

====
